---- MODULE Spec2Model ----
(***************************************************************************)
(* ShiftFlow: the tenant-scoped entity store (profiles, organizations,     *)
(* shifts) with its row-level policies, integrity constraints, maintenance *)
(* triggers and the three analytics functions, as left by the migrations   *)
(* 00001 (initial schema), 00002 (hourly_rate, end_date) and the hardening *)
(* migration.                                                              *)
(***************************************************************************)
EXTENDS Integers, Sequences, FiniteSets, TLC

VARIABLES authUsers, profiles, organizations, shifts, now, lastOp, hardened,
          inflight, client

vars == <<authUsers, profiles, organizations, shifts, now, lastOp, hardened,
          inflight, client>>

store == <<authUsers, profiles, organizations, shifts>>

----------------------------------------------------------------------------
(* Bounds of the model *)

MaxUsers == 2

MaxOrgs == 2

MaxShifts == 1

Users == 1..MaxUsers

OrgIds == 1..MaxOrgs

ShiftIds == 1..MaxShifts

----------------------------------------------------------------------------
(* SQL values *)

\* SQL NULL for identifiers, dates, timestamps and numbers (all >= 0 when present)
NULL == -1

\* SQL NULL for text columns
NULL_TEXT == "<null>"

\* a = b under SQL three-valued logic, read where only TRUE passes
\* (a policy's USING / WITH CHECK, a join condition, a WHERE clause)
SqlEq(a, b) == a # NULL /\ b # NULL /\ a = b

COALESCE(a, b) == IF a # NULL THEN a ELSE b

\* a IS DISTINCT FROM b: NULL-safe inequality
IsDistinctFrom(a, b) == a # b

SecondsPerHour == 3600

\* make_date(y, m, d): a DATE, as PostgreSQL holds it: the Julian day number
\* of the civil date (date2j) less that of 2000-01-01
make_date(y, m, d) ==
    LET mm == IF m > 2 THEN m + 1 ELSE m + 13
        yy == IF m > 2 THEN y + 4800 ELSE y + 4799
        century == yy \div 100
    IN  yy * 365 - 32167 + (yy \div 4) - century + (century \div 4)
           + ((7834 * mm) \div 256) + d - 2451545

\* TIME 'hh:00'
TimeOfDay(h) == h * SecondsPerHour

\* date + time: a timestamp, in seconds
Timestamp(d, t) == d * 24 * SecondsPerHour + t

\* (COALESCE(end_date, date) + end_time): the end instant of a shift row
EndInstant(s) == Timestamp(COALESCE(s.end_date, s.date), s.end_time)

\* (date + start_time): the start instant of a shift row
StartInstant(s) == Timestamp(s.date, s.start_time)

----------------------------------------------------------------------------
(* Callers: auth.role() and auth.uid() of the request *)

AnonCaller == [role |-> "anon", uid |-> NULL]

AuthenticatedCallers == [role : {"authenticated"}, uid : Users]

NonPrivilegedCallers == {AnonCaller} \cup AuthenticatedCallers

\* the service role as the data API presents it (no user identity)
ServiceCaller == [role |-> "service_role", uid |-> NULL]

\* the service role bypasses row-level security
BypassesRLS(c) == c.role = "service_role"

----------------------------------------------------------------------------
(* Rows.  A table is a set of rows. *)

\* the row a statement's SET clause / partial payload produces
Patch(row, patch) ==
    [c \in DOMAIN row |-> IF c \in DOMAIN patch THEN patch[c] ELSE row[c]]

\* column defaults of public.organizations
OrgDefaults ==
    [color |-> "#3B82F6", hourly_rate |-> 0]

\* column defaults of public.shifts (end_date has none: it is NULL when absent)
ShiftDefaults ==
    [end_date |-> NULL, notes |-> NULL_TEXT]

----------------------------------------------------------------------------
(* Row-level policies of the hardening migration *)

profiles_select_own(c, r) == SqlEq(c.uid, r.id)

profiles_insert_own(c, r) == SqlEq(c.uid, r.id)

profiles_update_using(c, r) == SqlEq(c.uid, r.id)

profiles_update_check(c, r) == SqlEq(c.uid, r.id)

\* a SELECT policy that lets every row through
organizations_select_all(c, r) == TRUE

organizations_select_own(c, r) == SqlEq(c.uid, r.user_id)

\* an INSERT policy without its WITH CHECK
organizations_insert_any(c, r) == TRUE

organizations_insert_own(c, r) == SqlEq(c.uid, r.user_id)

organizations_update_using(c, r) == SqlEq(c.uid, r.user_id)

\* an UPDATE policy whose WITH CHECK lets every new row through
organizations_update_check_any(c, r) == TRUE

organizations_update_check(c, r) == SqlEq(c.uid, r.user_id)

\* a DELETE policy that lets every row through
organizations_delete_all(c, r) == TRUE

organizations_delete_own(c, r) == SqlEq(c.uid, r.user_id)

shifts_select_own(c, r) == SqlEq(c.uid, r.user_id)

shifts_insert_own(c, r) == SqlEq(c.uid, r.user_id)

shifts_update_using(c, r) == SqlEq(c.uid, r.user_id)

shifts_update_check(c, r) == SqlEq(c.uid, r.user_id)

shifts_delete_own(c, r) == SqlEq(c.uid, r.user_id)

\* profiles has no DELETE policy: with row-level security enabled, only a
\* caller that bypasses it deletes a profile
profiles_delete_none(c, r) == FALSE

\* the rows of a table a caller's statement can see, given the rows that
\* pass the policy
Visible(c, table, passing) ==
    IF BypassesRLS(c) THEN table ELSE table \cap passing

SelectableProfiles(c) ==
    Visible(c, profiles, {r \in profiles : profiles_select_own(c, r)})

UpdatableProfiles(c) ==
    Visible(c, profiles, {r \in profiles : profiles_update_using(c, r)})

DeletableProfiles(c) ==
    Visible(c, profiles, {r \in profiles : profiles_delete_none(c, r)})

SelectableOrganizations(c) ==
    Visible(c, organizations, {r \in organizations : organizations_select_own(c, r)})

UpdatableOrganizations(c) ==
    Visible(c, organizations, {r \in organizations : organizations_update_using(c, r)})

DeletableOrganizations(c) ==
    Visible(c, organizations, {r \in organizations : organizations_delete_own(c, r)})

SelectableShifts(c) ==
    Visible(c, shifts, {r \in shifts : shifts_select_own(c, r)})

UpdatableShifts(c) ==
    Visible(c, shifts, {r \in shifts : shifts_update_using(c, r)})

DeletableShifts(c) ==
    Visible(c, shifts, {r \in shifts : shifts_delete_own(c, r)})

----------------------------------------------------------------------------
(* Integrity constraints *)

\* profiles.id REFERENCES auth.users(id)
profiles_id_fkey(au, r) == r.id \in au

\* profiles: PRIMARY KEY (id), email NOT NULL
profiles_not_null(r) == r.id # NULL /\ r.email # NULL_TEXT

\* organizations.user_id REFERENCES profiles(id)
organizations_user_id_fkey(profs, r) == \E p \in profs : p.id = r.user_id

\* organizations: id, user_id, name, color NOT NULL
organizations_not_null(r) ==
    r.id # NULL /\ r.user_id # NULL /\ r.name # NULL_TEXT /\ r.color # NULL_TEXT

\* UNIQUE (user_id, name) on organizations
organizations_user_id_name_key(others, r) ==
    ~ \E o \in others : o.user_id = r.user_id /\ o.name = r.name

\* PRIMARY KEY (id), which also gives UNIQUE (id, user_id)
organizations_id_user_id_key(others, r) == ~ \E o \in others : o.id = r.id

\* shifts.user_id REFERENCES profiles(id)
shifts_user_id_fkey(profs, r) == \E p \in profs : p.id = r.user_id

\* the foreign key of the initial schema, dropped by the hardening migration:
\* organization_id REFERENCES organizations (id)
shifts_organization_id_fkey(orgs, r) ==
    \E o \in orgs : o.id = r.organization_id

\* a foreign key on organization_id alone
shifts_organization_user_fkey_id_only(orgs, r) ==
    \E o \in orgs : o.id = r.organization_id

\* FOREIGN KEY (organization_id, user_id) REFERENCES organizations (id, user_id)
shifts_organization_user_fkey(orgs, r) ==
    \E o \in orgs : o.id = r.organization_id /\ o.user_id = r.user_id

\* CHECK (COALESCE(end_date, date) >= date)
shifts_end_not_before_start_date(r) == COALESCE(r.end_date, r.date) >= r.date

\* a duration check on the times of day alone
shifts_duration_time_of_day(r) == r.end_time > r.start_time

\* a CHECK with >= for >: a shift that ends when it starts passes
shifts_duration_positive_or_zero(r) == EndInstant(r) >= StartInstant(r)

\* CHECK ((COALESCE(end_date, date) + end_time) > (date + start_time))
shifts_duration_positive(r) == EndInstant(r) > StartInstant(r)

\* shifts: id, user_id, organization_id, title, date, start_time, end_time NOT NULL
shifts_not_null(r) ==
    /\ r.id # NULL /\ r.user_id # NULL /\ r.organization_id # NULL
    /\ r.title # NULL_TEXT /\ r.date # NULL
    /\ r.start_time # NULL /\ r.end_time # NULL

shifts_pkey(others, r) == ~ \E s \in others : s.id = r.id

profiles_pkey(others, r) == ~ \E p \in others : p.id = r.id

\* every foreign key of the three tables holds in a candidate state
ForeignKeysHold(au, profs, orgs, shs) ==
    /\ \A p \in profs : profiles_id_fkey(au, p)
    /\ \A o \in orgs : organizations_user_id_fkey(profs, o)
    /\ \A s \in shs : shifts_user_id_fkey(profs, s)
    /\ \A s \in shs : shifts_organization_user_fkey(orgs, s)

\* ON DELETE CASCADE, from a set of remaining identities downwards
CascadeProfiles(au, profs) == {p \in profs : profiles_id_fkey(au, p)}

CascadeOrganizations(profs, orgs) ==
    {o \in orgs : organizations_user_id_fkey(profs, o)}

\* foreign keys on shifts without ON DELETE CASCADE taking the rows along
CascadeShifts_none(profs, orgs, shs) == shs

CascadeShifts(profs, orgs, shs) ==
    {s \in shs : shifts_user_id_fkey(profs, s)
                   /\ shifts_organization_user_fkey(orgs, s)}

----------------------------------------------------------------------------
(* Statements.  Each runs as one transaction: its checks and its write are  *)
(* one step, and an error leaves the store as it was.                       *)

NoRow == [none |-> TRUE]

NoResult == <<>>

\* what the last statement was and how it ended
Outcome(op, c, target, row, status, n, result) ==
    [op |-> op, caller |-> c, target |-> target, row |-> row,
     status |-> status, n |-> n, result |-> result]

\* BEFORE UPDATE trigger on profiles, organizations and shifts
set_updated_at(new) == [new EXCEPT !.updated_at = now]

\* INSERT INTO public.shifts on a table without the two CHECK constraints
InsertShiftStatus_unchecked(c, new) ==
    IF ~BypassesRLS(c) /\ ~shifts_insert_own(c, new) THEN "rls_violation"
    ELSE IF ~shifts_not_null(new) THEN "not_null_violation"
    ELSE IF ~shifts_pkey(shifts, new) THEN "unique_violation"
    ELSE IF ~shifts_user_id_fkey(profiles, new) THEN "fk_violation"
    ELSE IF ~shifts_organization_user_fkey(organizations, new) THEN "fk_violation"
    ELSE "ok"

\* INSERT INTO public.shifts that leaves the references to what the client
\* saw when it prepared the request
InsertShiftStatus_without_fkeys(c, new) ==
    IF ~BypassesRLS(c) /\ ~shifts_insert_own(c, new) THEN "rls_violation"
    ELSE IF ~shifts_not_null(new) THEN "not_null_violation"
    ELSE IF ~shifts_end_not_before_start_date(new) THEN "check_violation"
    ELSE IF ~shifts_duration_positive(new) THEN "check_violation"
    ELSE IF ~shifts_pkey(shifts, new) THEN "unique_violation"
    ELSE "ok"

\* INSERT INTO public.shifts
InsertShiftStatus(c, new) ==
    IF ~BypassesRLS(c) /\ ~shifts_insert_own(c, new) THEN "rls_violation"
    ELSE IF ~shifts_not_null(new) THEN "not_null_violation"
    ELSE IF ~shifts_end_not_before_start_date(new) THEN "check_violation"
    ELSE IF ~shifts_duration_positive(new) THEN "check_violation"
    ELSE IF ~shifts_pkey(shifts, new) THEN "unique_violation"
    ELSE IF ~shifts_user_id_fkey(profiles, new) THEN "fk_violation"
    ELSE IF ~shifts_organization_user_fkey(organizations, new) THEN "fk_violation"
    ELSE "ok"

InsertShift(c, payload) ==
    LET new == payload @@ ShiftDefaults @@ [created_at |-> now, updated_at |-> now]
        status == InsertShiftStatus(c, new)
    IN  /\ shifts' = IF status = "ok" THEN shifts \cup {new} ELSE shifts
        /\ lastOp' = Outcome("insert_shift", c, new.id, payload, status,
                             IF status = "ok" THEN 1 ELSE 0, NoResult)
        /\ UNCHANGED <<authUsers, profiles, organizations, now>>

\* UPDATE public.shifts SET ... WHERE id = target
UpdateShiftStatus(c, old, new) ==
    IF ~BypassesRLS(c) /\ ~shifts_update_check(c, new) THEN "rls_violation"
    ELSE IF ~shifts_not_null(new) THEN "not_null_violation"
    ELSE IF ~shifts_end_not_before_start_date(new) THEN "check_violation"
    ELSE IF ~shifts_duration_positive(new) THEN "check_violation"
    ELSE IF ~shifts_pkey(shifts \ {old}, new) THEN "unique_violation"
    ELSE IF ~shifts_user_id_fkey(profiles, new) THEN "fk_violation"
    ELSE IF ~shifts_organization_user_fkey(organizations, new) THEN "fk_violation"
    ELSE "ok"

UpdateShift(c, target, patch) ==
    LET hit == {s \in UpdatableShifts(c) : s.id = target}
    IN  /\ \/ /\ hit = {}
              /\ shifts' = shifts
              /\ lastOp' = Outcome("update_shift", c, target, patch, "ok", 0, NoResult)
           \/ \E old \in hit :
                LET new == set_updated_at(Patch(old, patch))
                    status == UpdateShiftStatus(c, old, new)
                IN  /\ shifts' = IF status = "ok"
                                 THEN (shifts \ {old}) \cup {new} ELSE shifts
                    /\ lastOp' = Outcome("update_shift", c, target, patch, status,
                                         IF status = "ok" THEN 1 ELSE 0, NoResult)
        /\ UNCHANGED <<authUsers, profiles, organizations, now>>

\* DELETE FROM public.shifts WHERE id = target
DeleteShift(c, target) ==
    LET hit == {s \in DeletableShifts(c) : s.id = target}
    IN  /\ shifts' = shifts \ hit
        /\ lastOp' = Outcome("delete_shift", c, target, NoRow, "ok",
                             Cardinality(hit), NoResult)
        /\ UNCHANGED <<authUsers, profiles, organizations, now>>

\* INSERT INTO public.organizations
InsertOrganizationStatus(c, new) ==
    IF ~BypassesRLS(c) /\ ~organizations_insert_own(c, new) THEN "rls_violation"
    ELSE IF ~organizations_not_null(new) THEN "not_null_violation"
    ELSE IF ~organizations_id_user_id_key(organizations, new) THEN "unique_violation"
    ELSE IF ~organizations_user_id_name_key(organizations, new) THEN "unique_violation"
    ELSE IF ~organizations_user_id_fkey(profiles, new) THEN "fk_violation"
    ELSE "ok"

InsertOrganization(c, payload) ==
    LET new == payload @@ OrgDefaults @@ [created_at |-> now, updated_at |-> now]
        status == InsertOrganizationStatus(c, new)
    IN  /\ organizations' = IF status = "ok"
                            THEN organizations \cup {new} ELSE organizations
        /\ lastOp' = Outcome("insert_organization", c, new.id, payload, status,
                             IF status = "ok" THEN 1 ELSE 0, NoResult)
        /\ UNCHANGED <<authUsers, profiles, shifts, now>>

\* UPDATE public.organizations with nothing referencing (id, user_id)
UpdateOrganizationStatus_unreferenced(c, old, new) ==
    IF ~BypassesRLS(c) /\ ~organizations_update_check(c, new) THEN "rls_violation"
    ELSE IF ~organizations_not_null(new) THEN "not_null_violation"
    ELSE IF ~organizations_id_user_id_key(organizations \ {old}, new)
         THEN "unique_violation"
    ELSE IF ~organizations_user_id_name_key(organizations \ {old}, new)
         THEN "unique_violation"
    ELSE IF ~organizations_user_id_fkey(profiles, new) THEN "fk_violation"
    ELSE "ok"

\* UPDATE public.organizations SET ... WHERE id = target.  The foreign keys
\* that reference the row are ON UPDATE NO ACTION: they are checked against
\* the table as the statement leaves it.
UpdateOrganizationStatus(c, old, new) ==
    LET orgs == (organizations \ {old}) \cup {new}
    IN  IF ~BypassesRLS(c) /\ ~organizations_update_check(c, new) THEN "rls_violation"
        ELSE IF ~organizations_not_null(new) THEN "not_null_violation"
        ELSE IF ~organizations_id_user_id_key(organizations \ {old}, new)
             THEN "unique_violation"
        ELSE IF ~organizations_user_id_name_key(organizations \ {old}, new)
             THEN "unique_violation"
        ELSE IF ~organizations_user_id_fkey(profiles, new) THEN "fk_violation"
        ELSE IF \E s \in shifts : ~shifts_organization_user_fkey(orgs, s)
             THEN "fk_violation"
        ELSE "ok"

UpdateOrganization(c, target, patch) ==
    LET hit == {o \in UpdatableOrganizations(c) :
                  o.id = target}
    IN  /\ \/ /\ hit = {}
              /\ organizations' = organizations
              /\ lastOp' = Outcome("update_organization", c, target, patch,
                                   "ok", 0, NoResult)
           \/ \E old \in hit :
                LET new == set_updated_at(Patch(old, patch))
                    status == UpdateOrganizationStatus(c, old, new)
                IN  /\ organizations' = IF status = "ok"
                                        THEN (organizations \ {old}) \cup {new}
                                        ELSE organizations
                    /\ lastOp' = Outcome("update_organization", c, target, patch,
                                         status, IF status = "ok" THEN 1 ELSE 0,
                                         NoResult)
        /\ UNCHANGED <<authUsers, profiles, shifts, now>>

\* DELETE FROM public.organizations WHERE id = target; its shifts go with it
DeleteOrganization(c, target) ==
    LET hit == {o \in DeletableOrganizations(c) :
                  o.id = target}
        orgs == organizations \ hit
    IN  /\ organizations' = orgs
        /\ shifts' = CascadeShifts(profiles, orgs, shifts)
        /\ lastOp' = Outcome("delete_organization", c, target, NoRow, "ok",
                             Cardinality(hit), NoResult)
        /\ UNCHANGED <<authUsers, profiles, now>>

\* INSERT INTO public.profiles
InsertProfileStatus(c, new) ==
    IF ~BypassesRLS(c) /\ ~profiles_insert_own(c, new) THEN "rls_violation"
    ELSE IF ~profiles_not_null(new) THEN "not_null_violation"
    ELSE IF ~profiles_pkey(profiles, new) THEN "unique_violation"
    ELSE IF ~profiles_id_fkey(authUsers, new) THEN "fk_violation"
    ELSE "ok"

InsertProfile(c, payload) ==
    LET new == payload @@ [full_name |-> NULL_TEXT,
                           created_at |-> now, updated_at |-> now]
        status == InsertProfileStatus(c, new)
    IN  /\ profiles' = IF status = "ok" THEN profiles \cup {new} ELSE profiles
        /\ lastOp' = Outcome("insert_profile", c, new.id, payload, status,
                             IF status = "ok" THEN 1 ELSE 0, NoResult)
        /\ UNCHANGED <<authUsers, organizations, shifts, now>>

\* UPDATE public.profiles SET ... WHERE id = target
UpdateProfileStatus(c, old, new) ==
    LET profs == (profiles \ {old}) \cup {new}
    IN  IF ~BypassesRLS(c) /\ ~profiles_update_check(c, new) THEN "rls_violation"
        ELSE IF ~profiles_not_null(new) THEN "not_null_violation"
        ELSE IF ~profiles_pkey(profiles \ {old}, new) THEN "unique_violation"
        ELSE IF ~ForeignKeysHold(authUsers, profs, organizations, shifts)
             THEN "fk_violation"
        ELSE "ok"

UpdateProfile(c, target, patch) ==
    LET hit == {p \in UpdatableProfiles(c) : p.id = target}
    IN  /\ \/ /\ hit = {}
              /\ profiles' = profiles
              /\ lastOp' = Outcome("update_profile", c, target, patch, "ok", 0,
                                   NoResult)
           \/ \E old \in hit :
                LET new == set_updated_at(Patch(old, patch))
                    status == UpdateProfileStatus(c, old, new)
                IN  /\ profiles' = IF status = "ok"
                                   THEN (profiles \ {old}) \cup {new} ELSE profiles
                    /\ lastOp' = Outcome("update_profile", c, target, patch, status,
                                         IF status = "ok" THEN 1 ELSE 0, NoResult)
        /\ UNCHANGED <<authUsers, organizations, shifts, now>>

\* DELETE FROM public.profiles WHERE id = target; organizations and shifts
\* of the profile go with it
DeleteProfile(c, target) ==
    LET hit == {p \in DeletableProfiles(c) : p.id = target}
        profs == profiles \ hit
        orgs == CascadeOrganizations(profs, organizations)
    IN  /\ profiles' = profs
        /\ organizations' = orgs
        /\ shifts' = CascadeShifts(profs, orgs, shifts)
        /\ lastOp' = Outcome("delete_profile", c, target, NoRow, "ok",
                             Cardinality(hit), NoResult)
        /\ UNCHANGED <<authUsers, now>>

\* the profile insert with ON CONFLICT (id) DO NOTHING
handle_new_user_do_nothing(profs, new_id, new_email, meta_full_name) ==
    LET excluded == [id |-> new_id, email |-> new_email,
                     full_name |-> IF meta_full_name # NULL_TEXT
                                   THEN meta_full_name ELSE "",
                     created_at |-> now, updated_at |-> now]
        conflict == {p \in profs : p.id = new_id}
    IN  IF conflict = {} THEN profs \cup {excluded} ELSE profs

\* handle_new_user(): the profile upsert run for a row NEW of auth.users
handle_new_user(profs, new_id, new_email, meta_full_name) ==
    LET excluded == [id |-> new_id, email |-> new_email,
                     full_name |-> IF meta_full_name # NULL_TEXT
                                   THEN meta_full_name ELSE "",
                     created_at |-> now, updated_at |-> now]
        conflict == {p \in profs : p.id = new_id}
    IN  IF conflict = {}
        THEN profs \cup {excluded}
        ELSE (profs \ conflict) \cup
             { set_updated_at(
                 [p EXCEPT !.email = excluded.email,
                           !.full_name = IF excluded.full_name # NULL_TEXT
                                         THEN excluded.full_name ELSE p.full_name,
                           !.updated_at = now]) : p \in conflict }

\* INSERT INTO auth.users, with its AFTER INSERT trigger on_auth_user_created
SignUp(u, email, meta_full_name) ==
    /\ u \notin authUsers
    /\ authUsers' = authUsers \cup {u}
    /\ profiles' = handle_new_user(profiles, u, email, meta_full_name)
    /\ lastOp' = Outcome("sign_up", AnonCaller, u, NoRow, "ok", 1, NoResult)
    /\ UNCHANGED <<organizations, shifts, now>>

\* handle_new_user() run once more for an identity that exists (the event
\* delivered again).  The row proposed for insertion is checked against NOT
\* NULL before the conflict on id is looked for.
Provision(u, email, meta_full_name) ==
    LET status == IF email = NULL_TEXT THEN "not_null_violation" ELSE "ok"
    IN  /\ u \in authUsers
        /\ profiles' = IF status = "ok"
                       THEN handle_new_user(profiles, u, email, meta_full_name)
                       ELSE profiles
        /\ lastOp' = Outcome("provision", AnonCaller, u,
                             [email |-> email, full_name |-> meta_full_name],
                             status, IF status = "ok" THEN 1 ELSE 0, NoResult)
        /\ UNCHANGED <<authUsers, organizations, shifts, now>>

\* DELETE FROM auth.users: the profile, its organizations and shifts cascade
DeleteAuthUser(u) ==
    LET au == authUsers \ {u}
        profs == CascadeProfiles(au, profiles)
        orgs == CascadeOrganizations(profs, organizations)
    IN  /\ u \in authUsers
        /\ authUsers' = au
        /\ profiles' = profs
        /\ organizations' = orgs
        /\ shifts' = CascadeShifts(profs, orgs, shifts)
        /\ lastOp' = Outcome("delete_auth_user", [role |-> "service_role", uid |-> NULL],
                             u, NoRow, "ok", 1, NoResult)
        /\ UNCHANGED now

\* SELECT * FROM public.profiles / organizations / shifts
SelectProfiles(c) ==
    LET rows == SelectableProfiles(c)
    IN  /\ lastOp' = Outcome("select_profiles", c, NULL, NoRow, "ok",
                             Cardinality(rows), rows)
        /\ UNCHANGED <<authUsers, profiles, organizations, shifts, now>>

SelectOrganizations(c) ==
    LET rows == SelectableOrganizations(c)
    IN  /\ lastOp' = Outcome("select_organizations", c, NULL, NoRow, "ok",
                             Cardinality(rows), rows)
        /\ UNCHANGED <<authUsers, profiles, organizations, shifts, now>>

SelectShifts(c) ==
    LET rows == SelectableShifts(c)
    IN  /\ lastOp' = Outcome("select_shifts", c, NULL, NoRow, "ok",
                             Cardinality(rows), rows)
        /\ UNCHANGED <<authUsers, profiles, organizations, shifts, now>>

----------------------------------------------------------------------------
(* The store before the hardening migration (initial schema and 00002), and *)
(* the migration                                                            *)

\* "Users can manage own organizations" / "Users can manage own shifts":
\* FOR ALL USING (auth.uid() = user_id), which also checks the rows written
users_can_manage_own(c, r) == SqlEq(c.uid, r.user_id)

LegacyInsertOrganizationStatus(c, new) ==
    IF ~BypassesRLS(c) /\ ~users_can_manage_own(c, new) THEN "rls_violation"
    ELSE IF ~organizations_not_null(new) THEN "not_null_violation"
    ELSE IF \E o \in organizations : o.id = new.id THEN "unique_violation"
    ELSE IF ~organizations_user_id_name_key(organizations, new) THEN "unique_violation"
    ELSE IF ~organizations_user_id_fkey(profiles, new) THEN "fk_violation"
    ELSE "ok"

LegacyInsertOrganization(c, payload) ==
    LET new == payload @@ OrgDefaults @@ [created_at |-> now, updated_at |-> now]
        status == LegacyInsertOrganizationStatus(c, new)
    IN  /\ ~hardened
        /\ organizations' = IF status = "ok"
                            THEN organizations \cup {new} ELSE organizations
        /\ lastOp' = Outcome("insert_organization", c, new.id, payload, status,
                             IF status = "ok" THEN 1 ELSE 0, NoResult)
        /\ UNCHANGED <<authUsers, profiles, shifts, now, hardened, inflight, client>>

LegacyInsertShiftStatus(c, new) ==
    IF ~BypassesRLS(c) /\ ~users_can_manage_own(c, new) THEN "rls_violation"
    ELSE IF ~shifts_not_null(new) THEN "not_null_violation"
    ELSE IF ~shifts_pkey(shifts, new) THEN "unique_violation"
    ELSE IF ~shifts_user_id_fkey(profiles, new) THEN "fk_violation"
    ELSE IF ~shifts_organization_id_fkey(organizations, new) THEN "fk_violation"
    ELSE "ok"

LegacyInsertShift(c, payload) ==
    LET new == payload @@ ShiftDefaults @@ [created_at |-> now, updated_at |-> now]
        status == LegacyInsertShiftStatus(c, new)
    IN  /\ ~hardened
        /\ shifts' = IF status = "ok" THEN shifts \cup {new} ELSE shifts
        /\ lastOp' = Outcome("insert_shift", c, new.id, payload, status,
                             IF status = "ok" THEN 1 ELSE 0, NoResult)
        /\ UNCHANGED <<authUsers, profiles, organizations, now, hardened, inflight, client>>

LegacyUpdateShiftStatus(c, old, new) ==
    IF ~BypassesRLS(c) /\ ~users_can_manage_own(c, new) THEN "rls_violation"
    ELSE IF ~shifts_not_null(new) THEN "not_null_violation"
    ELSE IF ~shifts_pkey(shifts \ {old}, new) THEN "unique_violation"
    ELSE IF ~shifts_user_id_fkey(profiles, new) THEN "fk_violation"
    ELSE IF ~shifts_organization_id_fkey(organizations, new) THEN "fk_violation"
    ELSE "ok"

\* UPDATE public.shifts SET ... WHERE id = target, before the migration: no
\* trigger stamps updated_at
LegacyUpdateShift(c, target, patch) ==
    LET hit == {s \in Visible(c, shifts, {r \in shifts : users_can_manage_own(c, r)}) :
                  s.id = target}
    IN  /\ ~hardened
        /\ \/ /\ hit = {}
              /\ shifts' = shifts
              /\ lastOp' = Outcome("update_shift", c, target, patch, "ok", 0, NoResult)
           \/ \E old \in hit :
                LET new == Patch(old, patch)
                    status == LegacyUpdateShiftStatus(c, old, new)
                IN  /\ shifts' = IF status = "ok"
                                 THEN (shifts \ {old}) \cup {new} ELSE shifts
                    /\ lastOp' = Outcome("update_shift", c, target, patch, status,
                                         IF status = "ok" THEN 1 ELSE 0, NoResult)
        /\ UNCHANGED <<authUsers, profiles, organizations, now, hardened, inflight, client>>

\* SELECT COUNT(*) FROM shifts s JOIN organizations o ON o.id = s.organization_id
\* WHERE s.user_id <> o.user_id
mismatched_shift_org_count ==
    Cardinality({so \in shifts \X organizations :
                   /\ so[2].id = so[1].organization_id
                   /\ so[1].user_id # so[2].user_id})

\* the count of invalid ranges without the COALESCE: a comparison with an
\* absent end_date is unknown, and the row is not counted
invalid_shift_duration_count_end_date_given ==
    Cardinality({s \in shifts :
                   /\ s.end_date # NULL
                   /\ \/ s.end_date < s.date
                      \/ EndInstant(s) <= StartInstant(s)})

\* SELECT COUNT(*) FROM shifts s WHERE COALESCE(s.end_date, s.date) < s.date
\*   OR (COALESCE(s.end_date, s.date) + s.end_time) <= (s.date + s.start_time)
invalid_shift_duration_count ==
    Cardinality({s \in shifts :
                   \/ COALESCE(s.end_date, s.date) < s.date
                   \/ EndInstant(s) <= StartInstant(s)})

\* a precheck that looks at the owners only
MigrationStatus_owners_only ==
    IF mismatched_shift_org_count > 0
    THEN "Migration blocked: shift rows reference an organization owned by a different user"
    ELSE "ok"

\* the DO block that opens the migration: the exception it raises, or "ok"
MigrationStatus ==
    IF mismatched_shift_org_count > 0
    THEN "Migration blocked: shift rows reference an organization owned by a different user"
    ELSE IF invalid_shift_duration_count > 0
         THEN "Migration blocked: shift rows have invalid date/time ranges"
         ELSE "ok"

\* UPDATE ... SET created_at = COALESCE(created_at, NOW()),
\*                updated_at = COALESCE(updated_at, NOW())
BackfillTimestamps(table) ==
    { [r EXCEPT !.created_at = COALESCE(r.created_at, now),
                !.updated_at = COALESCE(r.updated_at, now)] : r \in table }

\* ALTER TABLE public.shifts ADD CONSTRAINT ...: each constraint is validated
\* against the rows the table holds, and the statement fails on a row that
\* violates it
AddConstraintsStatus ==
    IF \E s \in shifts : ~shifts_organization_user_fkey(organizations, s)
    THEN "fk_violation"
    ELSE IF \E s \in shifts : ~shifts_end_not_before_start_date(s)
    THEN "check_violation"
    ELSE IF \E s \in shifts : ~shifts_duration_positive(s)
    THEN "check_violation"
    ELSE "ok"

\* the hardening migration, run as one transaction: the prechecks, and when
\* they pass the timestamps, triggers, constraints, policies and functions
Migrate ==
    /\ ~hardened
    /\ IF MigrationStatus = "ok" /\ AddConstraintsStatus = "ok"
       THEN /\ profiles' = BackfillTimestamps(profiles)
            /\ organizations' = BackfillTimestamps(organizations)
            /\ shifts' = BackfillTimestamps(shifts)
            /\ hardened' = TRUE
            /\ lastOp' = Outcome("migrate", ServiceCaller, NULL, NoRow, "ok", 0, NoResult)
       ELSE IF MigrationStatus = "ok"
       THEN /\ UNCHANGED <<profiles, organizations, shifts, hardened>>
            /\ lastOp' = Outcome("migrate", ServiceCaller, NULL, NoRow,
                                 AddConstraintsStatus, 0, NoResult)
       ELSE /\ UNCHANGED <<profiles, organizations, shifts, hardened>>
            /\ lastOp' = Outcome("migrate", ServiceCaller, NULL, NoRow, MigrationStatus,
                                 IF mismatched_shift_org_count > 0
                                 THEN mismatched_shift_org_count
                                 ELSE invalid_shift_duration_count,
                                 NoResult)
    /\ UNCHANGED <<authUsers, now, inflight, client>>

----------------------------------------------------------------------------
(* Analytics functions (SECURITY INVOKER: their queries run under the      *)
(* caller's row-level policies)                                            *)

\* REVOKE ALL ... FROM PUBLIC; GRANT EXECUTE ... TO authenticated, service_role
HasExecuteGrant(c) == c.role \in {"authenticated", "service_role"}

\* the functions of the initial schema: no identity check, p_user_id as given
AuthorizeOwner_unchecked(c, p_user_id) ==
    [status |-> "ok", v_uid |-> p_user_id]

\* an identity check whose service_role branch leaves v_uid := auth.uid()
AuthorizeOwner_keeps_uid(c, p_user_id) ==
    IF c.role = "service_role"
    THEN IF p_user_id = NULL
         THEN [status |-> "p_user_id is required for service_role", v_uid |-> NULL]
         ELSE [status |-> "ok", v_uid |-> c.uid]
    ELSE IF c.uid = NULL
         THEN [status |-> "Not authenticated", v_uid |-> NULL]
         ELSE IF IsDistinctFrom(p_user_id, c.uid)
              THEN [status |-> "p_user_id must match auth.uid()", v_uid |-> NULL]
              ELSE [status |-> "ok", v_uid |-> c.uid]

\* the identity check that opens each of the three functions:
\* status "ok" and the owner v_uid to query, or the exception raised
AuthorizeOwner(c, p_user_id) ==
    IF c.role = "service_role"
    THEN IF p_user_id = NULL
         THEN [status |-> "p_user_id is required for service_role", v_uid |-> NULL]
         ELSE [status |-> "ok", v_uid |-> p_user_id]
    ELSE IF c.uid = NULL
         THEN [status |-> "Not authenticated", v_uid |-> NULL]
         ELSE IF IsDistinctFrom(p_user_id, c.uid)
              THEN [status |-> "p_user_id must match auth.uid()", v_uid |-> NULL]
              ELSE [status |-> "ok", v_uid |-> c.uid]

\* hours from the times of day alone
HoursWorked_time_of_day(s) == (s.end_time - s.start_time) \div SecondsPerHour

\* EXTRACT(EPOCH FROM (end instant - start instant)) / 3600.  Times of day are
\* whole hours in this model, so the quotient is exact.
HoursWorked(s) == (EndInstant(s) - StartInstant(s)) \div SecondsPerHour

RECURSIVE SumHours(_)
\* SUM(...) over a set of shift rows
SumHours(rows) ==
    IF rows = {} THEN 0
    ELSE LET s == CHOOSE x \in rows : TRUE
         IN  HoursWorked(s) + SumHours(rows \ {s})

\* the sequences that list each row of a set once
Listings(rows) ==
    {q \in [1..Cardinality(rows) -> rows] :
        \A i, j \in 1..Cardinality(rows) : i < j => q[i] # q[j]}

\* ORDER BY total_hours DESC (rows that tie may come in any order)
OrderByTotalHoursDesc(rows) ==
    {q \in Listings(rows) :
        \A i, j \in 1..Len(q) : i < j => q[i].total_hours >= q[j].total_hours}

\* ORDER BY date alone
OrderByDateStartTime_date_only(rows) ==
    {q \in Listings(rows) :
        \A i, j \in 1..Len(q) : i < j => q[i].date <= q[j].date}

\* ORDER BY date, start_time (rows that tie may come in any order)
OrderByDateStartTime(rows) ==
    {q \in Listings(rows) :
        \A i, j \in 1..Len(q) :
            i < j => \/ q[i].date < q[j].date
                     \/ (q[i].date = q[j].date /\ q[i].start_time <= q[j].start_time)}

\* the summary query with JOIN for LEFT JOIN: an organization without a shift
\* in the window has no row
SummaryRows_inner_join(c, v_uid, lo, hi) ==
    LET orgs == {o \in SelectableOrganizations(c) :
                   SqlEq(o.user_id, v_uid)}
        joined(o) == {s \in SelectableShifts(c) :
                        /\ SqlEq(s.organization_id, o.id)
                        /\ s.date >= lo
                        /\ s.date < hi}
    IN  { [organization_id |-> o.id,
           organization_name |-> o.name,
           organization_color |-> o.color,
           shift_count |-> Cardinality(joined(o)),
           total_hours |-> SumHours(joined(o))] :
          o \in {x \in orgs : joined(x) # {}} }

\* the summary query with the window on the day the shift ends
SummaryRows_by_end_date(c, v_uid, lo, hi) ==
    LET orgs == {o \in SelectableOrganizations(c) :
                   SqlEq(o.user_id, v_uid)}
        joined(o) == {s \in SelectableShifts(c) :
                        /\ SqlEq(s.organization_id, o.id)
                        /\ COALESCE(s.end_date, s.date) >= lo
                        /\ COALESCE(s.end_date, s.date) < hi}
    IN  { [organization_id |-> o.id,
           organization_name |-> o.name,
           organization_color |-> o.color,
           shift_count |-> Cardinality(joined(o)),
           total_hours |-> SumHours(joined(o))] : o \in orgs }

\* the summary query with COUNT(*) for COUNT(s.id): the row the LEFT JOIN
\* keeps for an organization without a shift in the window is counted
SummaryRows_count_star(c, v_uid, lo, hi) ==
    LET orgs == {o \in SelectableOrganizations(c) :
                   SqlEq(o.user_id, v_uid)}
        joined(o) == {s \in SelectableShifts(c) :
                        /\ SqlEq(s.organization_id, o.id)
                        /\ s.date >= lo
                        /\ s.date < hi}
    IN  { [organization_id |-> o.id,
           organization_name |-> o.name,
           organization_color |-> o.color,
           shift_count |-> IF joined(o) = {} THEN 1 ELSE Cardinality(joined(o)),
           total_hours |-> SumHours(joined(o))] : o \in orgs }

\* organizations o LEFT JOIN shifts s ON s.organization_id = o.id
\*   AND s.date >= lo AND s.date < hi WHERE o.user_id = v_uid GROUP BY o.id, ...
SummaryRows(c, v_uid, lo, hi) ==
    LET orgs == {o \in SelectableOrganizations(c) :
                   SqlEq(o.user_id, v_uid)}
        joined(o) == {s \in SelectableShifts(c) :
                        /\ SqlEq(s.organization_id, o.id)
                        /\ s.date >= lo
                        /\ s.date < hi}
    IN  { [organization_id |-> o.id,
           organization_name |-> o.name,
           organization_color |-> o.color,
           shift_count |-> Cardinality(joined(o)),
           total_hours |-> SumHours(joined(o))] : o \in orgs }

\* the listing query with the join on the owner: a shift is paired with
\* every organization of its user
ListingRows_join_on_owner(c, v_uid, lo, hi) ==
    LET orgs == SelectableOrganizations(c)
        shs == {s \in SelectableShifts(c) :
                  /\ SqlEq(s.user_id, v_uid)
                  /\ s.date >= lo
                  /\ s.date < hi}
    IN  { [id |-> so[1].id,
           organization_id |-> so[1].organization_id,
           organization_name |-> so[2].name,
           organization_color |-> so[2].color,
           title |-> so[1].title,
           date |-> so[1].date,
           start_time |-> so[1].start_time,
           end_time |-> so[1].end_time,
           hours_worked |-> HoursWorked(so[1])] :
          so \in {x \in shs \X orgs : SqlEq(x[1].user_id, x[2].user_id)} }

\* shifts s JOIN organizations o ON s.organization_id = o.id
\*   WHERE s.user_id = v_uid AND s.date >= lo AND s.date < hi
ListingRows(c, v_uid, lo, hi) ==
    LET orgs == SelectableOrganizations(c)
        shs == {s \in SelectableShifts(c) :
                  /\ SqlEq(s.user_id, v_uid)
                  /\ s.date >= lo
                  /\ s.date < hi}
    IN  { [id |-> so[1].id,
           organization_id |-> so[1].organization_id,
           organization_name |-> so[2].name,
           organization_color |-> so[2].color,
           title |-> so[1].title,
           date |-> so[1].date,
           start_time |-> so[1].start_time,
           end_time |-> so[1].end_time,
           hours_worked |-> HoursWorked(so[1])] :
          so \in {x \in shs \X orgs : SqlEq(x[1].organization_id, x[2].id)} }

\* v_month_start := make_date(p_year, p_month, 1)
MonthStart(p_year, p_month) == make_date(p_year, p_month, 1)

\* a month's end that stays in the year of the month: December ends where
\* its year began
MonthEnd_same_year(p_year, p_month) ==
    IF p_month = 12 THEN make_date(p_year, 1, 1)
    ELSE make_date(p_year, p_month + 1, 1)

\* v_month_end := (v_month_start + INTERVAL '1 month')::DATE
MonthEnd(p_year, p_month) ==
    IF p_month = 12 THEN make_date(p_year + 1, 1, 1)
    ELSE make_date(p_year, p_month + 1, 1)

\* v_fy_start := make_date(p_fy_start_year, 7, 1)
FyStart(p_fy_start_year) == make_date(p_fy_start_year, 7, 1)

\* a financial year that takes in the July 1 it ends on
FyEnd_inclusive(p_fy_start_year) == make_date(p_fy_start_year + 1, 7, 2)

\* v_fy_end := make_date(p_fy_start_year + 1, 7, 1)
FyEnd(p_fy_start_year) == make_date(p_fy_start_year + 1, 7, 1)

\* get_monthly_summary of the initial schema's kind: p_month is not validated
MonthlySummaryStatus_any_month(c, p_user_id, p_year, p_month) ==
    IF ~HasExecuteGrant(c) THEN "permission_denied"
    ELSE AuthorizeOwner(c, p_user_id).status

\* get_monthly_summary(p_user_id, p_year, p_month): how the call ends
MonthlySummaryStatus(c, p_user_id, p_year, p_month) ==
    IF ~HasExecuteGrant(c) THEN "permission_denied"
    ELSE IF AuthorizeOwner(c, p_user_id).status # "ok"
         THEN AuthorizeOwner(c, p_user_id).status
    ELSE IF p_month < 1 \/ p_month > 12 THEN "p_month must be between 1 and 12"
    ELSE "ok"

\* get_monthly_summary: the rows of RETURN QUERY
MonthlySummaryRows(c, p_user_id, p_year, p_month) ==
    IF MonthlySummaryStatus(c, p_user_id, p_year, p_month) # "ok" THEN {}
    ELSE SummaryRows(c, AuthorizeOwner(c, p_user_id).v_uid,
                     MonthStart(p_year, p_month), MonthEnd(p_year, p_month))

get_monthly_summary(c, p_user_id, p_year, p_month) ==
    /\ \E result \in OrderByTotalHoursDesc(MonthlySummaryRows(c, p_user_id, p_year, p_month)) :
         lastOp' = Outcome("get_monthly_summary", c, p_user_id,
                           [year |-> p_year, month |-> p_month],
                           MonthlySummaryStatus(c, p_user_id, p_year, p_month),
                           Len(result), result)
    /\ UNCHANGED <<authUsers, profiles, organizations, shifts, now>>

\* the functions of the initial schema: executable by PUBLIC, no identity check
FinancialYearStatus_public(c, p_user_id) == "ok"

\* get_financial_year_summary / get_shifts_by_financial_year: how the call ends
FinancialYearStatus(c, p_user_id) ==
    IF ~HasExecuteGrant(c) THEN "permission_denied"
    ELSE AuthorizeOwner(c, p_user_id).status

FinancialYearSummaryRows(c, p_user_id, p_fy_start_year) ==
    IF FinancialYearStatus(c, p_user_id) # "ok" THEN {}
    ELSE SummaryRows(c, AuthorizeOwner(c, p_user_id).v_uid,
                     FyStart(p_fy_start_year), FyEnd(p_fy_start_year))

get_financial_year_summary(c, p_user_id, p_fy_start_year) ==
    /\ \E result \in OrderByTotalHoursDesc(FinancialYearSummaryRows(c, p_user_id, p_fy_start_year)) :
         lastOp' = Outcome("get_financial_year_summary", c, p_user_id,
                           [year |-> p_fy_start_year],
                           FinancialYearStatus(c, p_user_id),
                           Len(result), result)
    /\ UNCHANGED <<authUsers, profiles, organizations, shifts, now>>

ShiftsByFinancialYearRows(c, p_user_id, p_fy_start_year) ==
    IF FinancialYearStatus(c, p_user_id) # "ok" THEN {}
    ELSE ListingRows(c, AuthorizeOwner(c, p_user_id).v_uid,
                     FyStart(p_fy_start_year), FyEnd(p_fy_start_year))

get_shifts_by_financial_year(c, p_user_id, p_fy_start_year) ==
    /\ \E result \in OrderByDateStartTime(ShiftsByFinancialYearRows(c, p_user_id, p_fy_start_year)) :
         lastOp' = Outcome("get_shifts_by_financial_year", c, p_user_id,
                           [year |-> p_fy_start_year],
                           FinancialYearStatus(c, p_user_id),
                           Len(result), result)
    /\ UNCHANGED <<authUsers, profiles, organizations, shifts, now>>

----------------------------------------------------------------------------
(* The store under all callers *)

WriteCallers == NonPrivilegedCallers \cup {ServiceCaller}

SignUpEmail == "user@example.com"

OrgNames == {"Cafe", "Bar"}


ShiftTimes == {TimeOfDay(6), TimeOfDay(22)}

\* two consecutive days, across the end of June
ShiftDates == {make_date(2025, 6, 30), make_date(2025, 7, 1)}

ProfilePayloads == [id : Users, email : {SignUpEmail}]

ProfilePatches == [id : Users] \cup [email : {SignUpEmail}]

OrgPayloads == [id : OrgIds, user_id : Users, name : OrgNames]

OrgPatches == [user_id : Users] \cup [name : OrgNames]

\* date, end_date (left out of the payload when absent), start_time, end_time
ShiftSpan(d, e, st, et) ==
    IF e = NULL
    THEN [date |-> d, start_time |-> TimeOfDay(st), end_time |-> TimeOfDay(et)]
    ELSE [date |-> d, end_date |-> e,
          start_time |-> TimeOfDay(st), end_time |-> TimeOfDay(et)]

June30 == make_date(2025, 6, 30)

July1 == make_date(2025, 7, 1)

\* a day shift, an inverted and an empty one, an overnight shift with and
\* without its end_date, an end_date before the date, a day shift on July 1
ShiftSpans ==
    { ShiftSpan(June30, NULL, 6, 22),
      ShiftSpan(June30, June30, 22, 6),
      ShiftSpan(June30, June30, 6, 6),
      ShiftSpan(June30, July1, 22, 6),
      ShiftSpan(June30, NULL, 22, 6),
      ShiftSpan(July1, June30, 6, 22),
      ShiftSpan(July1, July1, 6, 22) }

ShiftPayloads ==
    { span @@ key : span \in ShiftSpans,
                    key \in [id : ShiftIds, user_id : Users,
                             organization_id : OrgIds, title : {"Shift"}] }

ShiftPatches ==
    [user_id : Users] \cup [organization_id : OrgIds]
    \cup [user_id : Users, organization_id : OrgIds]
    \cup [date : ShiftDates] \cup [end_date : ShiftDates \cup {NULL}]
    \cup [start_time : ShiftTimes] \cup [end_time : ShiftTimes]

RpcYears == {2024, 2025}

RpcCallers == NonPrivilegedCallers \cup [role : {"service_role"}, uid : {NULL, 1}]

NoOp == Outcome("none", AnonCaller, NULL, NoRow, "ok", 0, NoResult)

\* no statement's outcome is waiting to be returned
Idle == lastOp = NoOp

\* a browser session before it has loaded anything: the lists the hooks keep,
\* the error they show, and what the last hook call returned
NoSession ==
    [organizations |-> {}, shifts |-> {}, error |-> NULL_TEXT,
     hook |-> "none", returned |-> FALSE]

RpcMonths == {0, 6, 7, 13}

Init ==
    /\ authUsers = {}
    /\ profiles = {}
    /\ organizations = {}
    /\ shifts = {}
    /\ now = 1
    /\ lastOp = NoOp
    /\ hardened = TRUE
    /\ inflight = {}
    /\ client = [u \in Users |-> NoSession]

\* one statement or function call, as one transaction
Statement ==
    \/ \E u \in Users : SignUp(u, SignUpEmail, NULL_TEXT)
    \/ \E u \in Users : DeleteAuthUser(u)
    \/ \E c \in WriteCallers, r \in ProfilePayloads : InsertProfile(c, r)
    \/ \E c \in WriteCallers, u \in Users, r \in ProfilePatches : UpdateProfile(c, u, r)
    \/ \E c \in WriteCallers, u \in Users : DeleteProfile(c, u)
    \/ \E c \in WriteCallers, r \in OrgPayloads : InsertOrganization(c, r)
    \/ \E c \in WriteCallers, o \in OrgIds, r \in OrgPatches :
         UpdateOrganization(c, o, r)
    \/ \E c \in WriteCallers, o \in OrgIds : DeleteOrganization(c, o)
    \/ \E c \in WriteCallers, r \in ShiftPayloads : InsertShift(c, r)
    \/ \E c \in WriteCallers, s \in ShiftIds, r \in ShiftPatches : UpdateShift(c, s, r)
    \/ \E c \in WriteCallers, s \in ShiftIds : DeleteShift(c, s)
    \/ \E c \in WriteCallers : SelectProfiles(c)
    \/ \E c \in WriteCallers : SelectOrganizations(c)
    \/ \E c \in WriteCallers : SelectShifts(c)
    \/ \E c \in RpcCallers, u \in Users \cup {NULL}, m \in RpcMonths :
         get_monthly_summary(c, u, 2025, m)
    \/ \E c \in RpcCallers, u \in Users \cup {NULL}, y \in RpcYears :
         get_financial_year_summary(c, u, y)
    \/ \E c \in RpcCallers, u \in Users \cup {NULL}, y \in RpcYears :
         get_shifts_by_financial_year(c, u, y)

\* the outcome is returned to the caller; the transaction has committed or
\* rolled back and the next statement sees the store it left
Respond ==
    /\ ~Idle
    /\ lastOp' = NoOp
    /\ UNCHANGED <<authUsers, profiles, organizations, shifts, now>>

\* the migrations are applied before the store serves requests: the schema
\* stays as the hardening migration left it
Next ==
    (Idle /\ Statement /\ UNCHANGED <<hardened, inflight, client>>)
    \/ (Respond /\ UNCHANGED <<hardened, inflight, client>>)

Spec == Init /\ [][Next]_vars

----------------------------------------------------------------------------
(* The analytics functions over a store that tenants fill: each tenant signs *)
(* up, adds organizations and shifts of its own, and callers ask for the     *)
(* summaries and the listing.                                                *)

MaxAnalyticsShifts == 3

AnalyticsShiftIds == 1..MaxAnalyticsShifts

\* a day shift of 16 hours on June 30, an overnight shift of 8 hours from
\* June 30 to July 1, a shift of 40 hours from June 30 06:00 to July 1 22:00,
\* a day shift of 16 hours on July 1
AnalyticsSpans ==
    { ShiftSpan(June30, NULL, 6, 22),
      ShiftSpan(June30, July1, 22, 6),
      ShiftSpan(June30, July1, 6, 22),
      ShiftSpan(July1, NULL, 6, 22) }

AnalyticsShiftPayloads ==
    { span @@ key : span \in AnalyticsSpans,
                    key \in [id : AnalyticsShiftIds, user_id : Users,
                             organization_id : OrgIds, title : {"Shift"}] }

AnalyticsOrgPayloads ==
    { [id |-> 1, user_id |-> u, name |-> "Cafe"] : u \in Users }
    \cup { [id |-> 2, user_id |-> u, name |-> "Bar"] : u \in Users }

\* the authenticated caller with identity u
Tenant(u) == [role |-> "authenticated", uid |-> u]

AnalyticsCallers == AuthenticatedCallers \cup {ServiceCaller}

AnalyticsMonths == {6, 7}

AnalyticsStatement ==
    \/ \E u \in Users : SignUp(u, SignUpEmail, NULL_TEXT)
    \/ \E r \in AnalyticsOrgPayloads : InsertOrganization(Tenant(r.user_id), r)
    \/ \E r \in AnalyticsShiftPayloads : InsertShift(Tenant(r.user_id), r)
    \/ \E c \in AnalyticsCallers, u \in Users, m \in AnalyticsMonths :
         get_monthly_summary(c, u, 2025, m)
    \/ \E c \in AnalyticsCallers, u \in Users, y \in RpcYears :
         get_financial_year_summary(c, u, y)
    \/ \E c \in AnalyticsCallers, u \in Users, y \in RpcYears :
         get_shifts_by_financial_year(c, u, y)

AnalyticsNext ==
    (Idle /\ AnalyticsStatement /\ UNCHANGED <<hardened, inflight, client>>)
    \/ (Respond /\ UNCHANGED <<hardened, inflight, client>>)

AnalyticsSpec == Init /\ [][AnalyticsNext]_vars

----------------------------------------------------------------------------
(* The timestamps under a clock.  Every statement is a transaction of its   *)
(* own, and NOW() of each transaction is later than that of the one before. *)
(* An insert stores the updated_at its payload gives (the column default    *)
(* applies when it gives none); the BEFORE UPDATE triggers stamp updates.   *)

MaxClock == 4

\* a timestamp that lies ahead of every NOW() of the model
FutureTime == MaxClock + 1

\* a payload as it is, or with an updated_at of the caller's choice
WithUpdatedAt(payloads) ==
    payloads \cup {r @@ [updated_at |-> FutureTime] : r \in payloads}

ClockOrgPayloads == WithUpdatedAt([id : {1}, user_id : Users, name : {"Cafe"}])

ClockOrgPatches == WithUpdatedAt([name : OrgNames])

ClockShiftPayloads ==
    WithUpdatedAt({ ShiftSpan(June30, NULL, 6, 22) @@ key :
                      key \in [id : {1}, user_id : Users,
                               organization_id : {1}, title : {"Shift"}] })

ClockShiftPatches == WithUpdatedAt([end_time : {TimeOfDay(6), TimeOfDay(22)}])

ClockProfilePatches == WithUpdatedAt([full_name : {"Ada"}])

ClockStatement ==
    \/ \E u \in Users : SignUp(u, SignUpEmail, NULL_TEXT)
    \/ \E r \in ClockOrgPayloads : InsertOrganization(Tenant(r.user_id), r)
    \/ \E u \in Users, r \in ClockOrgPatches : UpdateOrganization(Tenant(u), 1, r)
    \/ \E r \in ClockShiftPayloads : InsertShift(Tenant(r.user_id), r)
    \/ \E u \in Users, r \in ClockShiftPatches : UpdateShift(Tenant(u), 1, r)
    \/ \E u \in Users, r \in ClockProfilePatches : UpdateProfile(Tenant(u), u, r)

\* the outcome is returned; the next transaction starts later
RespondLater ==
    /\ ~Idle
    /\ now < MaxClock
    /\ lastOp' = NoOp
    /\ now' = now + 1
    /\ UNCHANGED <<authUsers, profiles, organizations, shifts>>

ClockNext ==
    (Idle /\ ClockStatement /\ UNCHANGED <<hardened, inflight, client>>)
    \/ (RespondLater /\ UNCHANGED <<hardened, inflight, client>>)

ClockSpec == Init /\ [][ClockNext]_vars

----------------------------------------------------------------------------
(* Profile provisioning: identities are created, the provisioning event of  *)
(* an identity is delivered again with the email and the metadata of the    *)
(* delivery, owners edit their profile.                                     *)

ProvisionEmails == {SignUpEmail, "new@example.com"}

\* raw_user_meta_data->>'full_name': missing, empty, or a name
ProvisionNames == {NULL_TEXT, "", "Ada"}

ProvisioningStatement ==
    \/ \E u \in Users, n \in ProvisionNames : SignUp(u, SignUpEmail, n)
    \/ \E u \in Users, e \in ProvisionEmails \cup {NULL_TEXT}, n \in ProvisionNames :
         Provision(u, e, n)
    \/ \E u \in Users : UpdateProfile(Tenant(u), u, [full_name |-> "Bea"])
    \/ \E u \in Users : DeleteAuthUser(u)

ProvisioningNext ==
    (Idle /\ ProvisioningStatement /\ UNCHANGED <<hardened, inflight, client>>)
    \/ (Respond /\ UNCHANGED <<hardened, inflight, client>>)

ProvisioningSpec == Init /\ [][ProvisioningNext]_vars

----------------------------------------------------------------------------
(* Before and through the hardening migration: tenants and the service role *)
(* write under the initial schema, then the migration is run (and run again *)
(* after repairs when it was blocked).                                      *)

MaxLegacyShifts == 2

LegacyShiftIds == 1..MaxLegacyShifts

\* a day shift, an overnight shift with its end_date, one without it, a shift
\* whose end_date is before its date
LegacySpans ==
    { ShiftSpan(June30, NULL, 6, 22),
      ShiftSpan(June30, July1, 22, 6),
      ShiftSpan(June30, NULL, 22, 6),
      ShiftSpan(July1, June30, 6, 22) }

\* shifts as the initial schema takes them; the day shifts also with an
\* explicit NULL updated_at
LegacyShiftPayloads ==
    LET rows == { span @@ key : span \in LegacySpans,
                                key \in [id : LegacyShiftIds, user_id : Users,
                                         organization_id : OrgIds, title : {"Shift"}] }
    IN  rows \cup {r @@ [updated_at |-> NULL] :
                     r \in {x \in rows : x.end_time > x.start_time
                                          /\ "end_date" \notin DOMAIN x}}

\* repairs: another organization, an end_date
LegacyShiftPatches == [organization_id : OrgIds] \cup [end_date : {July1}]

MigrationStatement ==
    \/ \E u \in Users : ~hardened /\ SignUp(u, SignUpEmail, NULL_TEXT) /\ UNCHANGED <<hardened, inflight, client>>
    \/ \E r \in AnalyticsOrgPayloads : LegacyInsertOrganization(Tenant(r.user_id), r)
    \/ \E r \in LegacyShiftPayloads : LegacyInsertShift(Tenant(r.user_id), r)
    \/ \E u \in Users, s \in LegacyShiftIds, r \in LegacyShiftPatches :
         LegacyUpdateShift(Tenant(u), s, r)
    \/ Migrate

MigrationNext ==
    (Idle /\ MigrationStatement) \/ (Respond /\ UNCHANGED <<hardened, inflight, client>>)

\* the empty store of the initial schema and 00002
LegacyInit ==
    /\ authUsers = {}
    /\ profiles = {}
    /\ organizations = {}
    /\ shifts = {}
    /\ now = 1
    /\ lastOp = NoOp
    /\ hardened = FALSE
    /\ inflight = {}
    /\ client = [u \in Users |-> NoSession]

MigrationSpec == LegacyInit /\ [][MigrationNext]_vars

----------------------------------------------------------------------------
(* Concurrent callers.  A client prepares a request from what it sees (the  *)
(* organization picked from its list, the shift on its screen) and sends    *)
(* it; requests of different callers are in flight together and the store   *)
(* executes them in any order, each as one transaction on the store as it   *)
(* is then.                                                                 *)

Request(c, op, target, row) ==
    [caller |-> c, op |-> op, target |-> target, row |-> row]

ConcurrentSpans ==
    { ShiftSpan(June30, NULL, 6, 22),
      ShiftSpan(June30, July1, 22, 6),
      ShiftSpan(June30, June30, 22, 6) }

\* what tenant u may send
TenantRequests(u) ==
    { Request(Tenant(u), "insert_organization", r.id, r) :
        r \in {x \in AnalyticsOrgPayloads : x.user_id = u} }
    \cup { Request(Tenant(u), "insert_shift", r.id, r) :
             r \in {x \in ShiftPayloads : x.user_id = u
                                          /\ \E span \in ConcurrentSpans :
                                               \A k \in DOMAIN span : k \in DOMAIN x /\ x[k] = span[k]} }
    \cup { Request(Tenant(u), "update_shift", s, r) :
             s \in ShiftIds, r \in [organization_id : OrgIds] }
    \cup { Request(Tenant(u), "delete_organization", o, NoRow) : o \in OrgIds }

\* what the service role may send: an organization handed to another owner
ServiceRequests ==
    { Request(ServiceCaller, "update_organization", o, r) :
        o \in OrgIds, r \in [user_id : Users] }

ConcurrentRequests == ServiceRequests \cup UNION {TenantRequests(u) : u \in Users}

\* the client offers what its lists show: a shift goes to an organization the
\* caller sees, an update or a delete aims at a row the caller sees
ClientOffers(req) ==
    LET orgs == {o.id : o \in SelectableOrganizations(req.caller)}
        shs == {s.id : s \in SelectableShifts(req.caller)}
    IN  CASE req.op = "insert_shift" -> req.row.organization_id \in orgs
          [] req.op = "update_shift" ->
               req.target \in shs /\ req.row.organization_id \in orgs
          [] req.op \in {"delete_organization", "update_organization"} ->
               req.target \in orgs
          [] OTHER -> TRUE

\* a caller sends a request; it has one request in flight at a time
Submit(req) ==
    /\ ClientOffers(req)
    /\ ~ \E r \in inflight : r.caller = req.caller
    /\ inflight' = inflight \cup {req}
    /\ UNCHANGED <<authUsers, profiles, organizations, shifts, now, lastOp, hardened,
                   client>>

\* the store executes a request that is in flight
Execute(req) ==
    /\ req \in inflight
    /\ inflight' = inflight \ {req}
    /\ \/ req.op = "insert_organization" /\ InsertOrganization(req.caller, req.row)
       \/ req.op = "insert_shift" /\ InsertShift(req.caller, req.row)
       \/ req.op = "update_shift" /\ UpdateShift(req.caller, req.target, req.row)
       \/ req.op = "delete_organization" /\ DeleteOrganization(req.caller, req.target)
       \/ req.op = "update_organization"
            /\ UpdateOrganization(req.caller, req.target, req.row)
    /\ UNCHANGED <<hardened, client>>

ConcurrentStep ==
    \/ \E u \in Users :
         SignUp(u, SignUpEmail, NULL_TEXT) /\ UNCHANGED <<hardened, inflight, client>>
    \/ \E req \in ConcurrentRequests : Submit(req)
    \/ \E req \in inflight : Execute(req)

ConcurrentNext ==
    (Idle /\ ConcurrentStep) \/ (Respond /\ UNCHANGED <<hardened, inflight, client>>)

ConcurrentSpec == Init /\ [][ConcurrentNext]_vars

----------------------------------------------------------------------------
(* Pay rates.  The organizations page sends the rate its number field      *)
(* holds; a caller of the REST interface sends any payload.                *)

\* what the rate field of the organizations page may hold
RateInputs == {"", "25", "-5", "abc"}

\* parseFloat(text) || 0: the number the text starts with, and 0 for text
\* that is no number (NaN) or is zero
RateOfInput(text) ==
    CASE text = "25" -> 25
      [] text = "-5" -> 0 - 5
      [] OTHER -> 0

\* handleAddOrg: name, colour and the rate of the field
handleAddOrg(u, id, name, text) ==
    [id |-> id, user_id |-> u, name |-> name, color |-> "#3B82F6",
     hourly_rate |-> RateOfInput(text)]

\* handleUpdateOrg from the rate field of an organization's card
handleUpdateOrg(text) == [hourly_rate |-> RateOfInput(text)]

\* payloads of a direct caller: no rate, or an explicit NULL
DirectRatePayloads ==
    [id : OrgIds, user_id : Users, name : {"Cafe"}]
    \cup [id : OrgIds, user_id : Users, name : {"Cafe"}, hourly_rate : {NULL}]

RateStatement ==
    \/ \E u \in Users : SignUp(u, SignUpEmail, NULL_TEXT)
    \/ \E u \in Users, id \in OrgIds, name \in OrgNames, text \in RateInputs :
         InsertOrganization(Tenant(u), handleAddOrg(u, id, name, text))
    \/ \E r \in DirectRatePayloads : InsertOrganization(Tenant(r.user_id), r)
    \/ \E u \in Users, id \in OrgIds, text \in RateInputs :
         UpdateOrganization(Tenant(u), id, handleUpdateOrg(text))
    \/ \E u \in Users, id \in OrgIds :
         UpdateOrganization(Tenant(u), id, [hourly_rate |-> NULL])

RateNext ==
    (Idle /\ RateStatement /\ UNCHANGED <<hardened, inflight, client>>)
    \/ (Respond /\ UNCHANGED <<hardened, inflight, client>>)

RateSpec == Init /\ [][RateNext]_vars

----------------------------------------------------------------------------
(* The client hooks useShifts and useOrganizations.  A session keeps the    *)
(* lists it loaded; a hook sends one statement as the session's user and    *)
(* turns the response into its return value, its error and its list.        *)

\* setError of updateShift / deleteShift when the count of the response is 0
ShiftNotFoundOrDenied == "Shift not found or permission denied"

\* queryShiftsForUser: the caller's shifts, each with its organization
ShiftWithOrganization(u, s) ==
    LET orgs == {o \in SelectableOrganizations(Tenant(u)) : o.id = s.organization_id}
    IN  s @@ [organization |-> IF orgs = {} THEN NoRow ELSE CHOOSE o \in orgs : TRUE]

\* what syncShiftsForUser loads from a shifts table
SyncedShifts(u, shs) ==
    {ShiftWithOrganization(u, s) : s \in {x \in shs : shifts_select_own(Tenant(u), x)}}

\* the session of u after a hook call
Session(u, orgs, shs, error, hook, returned) ==
    [client EXCEPT ![u] = [organizations |-> orgs, shifts |-> shs, error |-> error,
                           hook |-> hook, returned |-> returned]]

\* fetchOrganizations: the list is what the select returns
fetchOrganizations(u) ==
    /\ SelectOrganizations(Tenant(u))
    /\ client' = Session(u, SelectableOrganizations(Tenant(u)), client[u].shifts,
                         NULL_TEXT, "fetchOrganizations", TRUE)

\* syncShiftsForUser
syncShiftsForUser(u) ==
    /\ SelectShifts(Tenant(u))
    /\ client' = Session(u, client[u].organizations, SyncedShifts(u, shifts),
                         NULL_TEXT, "syncShiftsForUser", TRUE)

\* what updateShift and deleteShift make of the response: an error, a count
\* of 0, or a change that is followed by a reload of the list
ShiftMutationSession(u, hook, response, shs) ==
    IF response.status # "ok"
    THEN Session(u, client[u].organizations, client[u].shifts, response.status,
                 hook, FALSE)
    ELSE IF response.n = 0
    THEN Session(u, client[u].organizations, client[u].shifts,
                 ShiftNotFoundOrDenied, hook, FALSE)
    ELSE Session(u, client[u].organizations, SyncedShifts(u, shs), NULL_TEXT,
                 hook, TRUE)

updateShift(u, id, updates) ==
    /\ UpdateShift(Tenant(u), id, updates)
    /\ client' = ShiftMutationSession(u, "updateShift", lastOp', shifts')

deleteShift(u, id) ==
    /\ DeleteShift(Tenant(u), id)
    /\ client' = ShiftMutationSession(u, "deleteShift", lastOp', shifts')

\* updateOrganization: an error is reported; otherwise the entry of the list
\* with that id takes the updates
updateOrganization(u, id, updates) ==
    /\ UpdateOrganization(Tenant(u), id, updates)
    /\ client' =
         IF lastOp'.status # "ok"
         THEN Session(u, client[u].organizations, client[u].shifts,
                      lastOp'.status, "updateOrganization", FALSE)
         ELSE Session(u, {IF o.id = id THEN Patch(o, updates) ELSE o :
                            o \in client[u].organizations},
                      client[u].shifts, NULL_TEXT, "updateOrganization", TRUE)

\* deleteOrganization: an error is reported; otherwise the entry of the list
\* with that id is dropped
deleteOrganization(u, id) ==
    /\ DeleteOrganization(Tenant(u), id)
    /\ client' =
         IF lastOp'.status # "ok"
         THEN Session(u, client[u].organizations, client[u].shifts,
                      lastOp'.status, "deleteOrganization", FALSE)
         ELSE Session(u, {o \in client[u].organizations : o.id # id},
                      client[u].shifts, NULL_TEXT, "deleteOrganization", TRUE)

ClientOrgPayloads == [id : OrgIds, user_id : Users, name : {"Cafe"}]

ClientOrgUpdates == [name : {"Bar"}]

ClientShiftPayloads ==
    { ShiftSpan(June30, NULL, 6, 22) @@ key :
        key \in [id : ShiftIds, user_id : Users, organization_id : OrgIds,
                 title : {"Shift"}] }

ClientShiftUpdates == [title : {"Late"}]

\* the users with a browser session open; the others act from elsewhere
SessionUsers == {1}

\* the hooks of a session, and statements of the same users from elsewhere
\* (another tab, another device), which the session's lists do not follow
ClientStatement ==
    \/ \E u \in Users :
         SignUp(u, SignUpEmail, NULL_TEXT) /\ UNCHANGED client
    \/ \E r \in ClientOrgPayloads :
         InsertOrganization(Tenant(r.user_id), r) /\ UNCHANGED client
    \/ \E r \in ClientShiftPayloads :
         InsertShift(Tenant(r.user_id), r) /\ UNCHANGED client
    \/ \E u \in Users, o \in OrgIds :
         DeleteOrganization(Tenant(u), o) /\ UNCHANGED client
    \/ \E u \in Users, s \in ShiftIds :
         DeleteShift(Tenant(u), s) /\ UNCHANGED client
    \/ \E u \in SessionUsers : fetchOrganizations(u)
    \/ \E u \in SessionUsers : syncShiftsForUser(u)
    \/ \E u \in SessionUsers, s \in ShiftIds, r \in ClientShiftUpdates :
         updateShift(u, s, r)
    \/ \E u \in SessionUsers, s \in ShiftIds : deleteShift(u, s)
    \/ \E u \in SessionUsers, o \in OrgIds, r \in ClientOrgUpdates :
         updateOrganization(u, o, r)
    \/ \E u \in SessionUsers, o \in OrgIds : deleteOrganization(u, o)

\* the page has shown the outcome of the hook
ClientRespond ==
    /\ Respond
    /\ client' = [u \in Users |-> [client[u] EXCEPT !.hook = "none"]]

ClientNext ==
    (Idle /\ ClientStatement /\ UNCHANGED <<hardened, inflight>>)
    \/ (ClientRespond /\ UNCHANGED <<hardened, inflight>>)

ClientSpec == Init /\ [][ClientNext]_vars

----------------------------------------------------------------------------
(* Listings over several days: shifts of June 29, June 30 and July 1, 2025, *)
(* in the morning and overnight                                             *)

June29 == make_date(2025, 6, 29)

ListingSpans ==
    { ShiftSpan(June29, NULL, 6, 22),
      ShiftSpan(June29, June30, 22, 6),
      ShiftSpan(June30, NULL, 6, 22),
      ShiftSpan(June30, July1, 22, 6),
      ShiftSpan(July1, NULL, 6, 22) }

ListingShiftPayloads ==
    { span @@ key : span \in ListingSpans,
                    key \in [id : AnalyticsShiftIds, user_id : Users,
                             organization_id : {1}, title : {"Shift"}] }

ListingStatement ==
    \/ \E u \in Users : SignUp(u, SignUpEmail, NULL_TEXT)
    \/ \E r \in {x \in AnalyticsOrgPayloads : x.id = 1} :
         InsertOrganization(Tenant(r.user_id), r)
    \/ \E r \in ListingShiftPayloads : InsertShift(Tenant(r.user_id), r)
    \/ \E c \in AnalyticsCallers, u \in Users, y \in RpcYears :
         get_shifts_by_financial_year(c, u, y)

ListingNext ==
    (Idle /\ ListingStatement /\ UNCHANGED <<hardened, inflight, client>>)
    \/ (Respond /\ UNCHANGED <<hardened, inflight, client>>)

ListingSpec == Init /\ [][ListingNext]_vars

----------------------------------------------------------------------------
(* The months of a financial year: shifts at both ends of financial year    *)
(* 2025 (July 1, 2025 to June 30, 2026) and around its turn of the year     *)

Dec31 == make_date(2025, 12, 31)

Jan1 == make_date(2026, 1, 1)

YearSpans ==
    { ShiftSpan(June30, NULL, 6, 22),
      ShiftSpan(July1, NULL, 6, 22),
      ShiftSpan(Dec31, NULL, 6, 22),
      ShiftSpan(Dec31, Jan1, 22, 6),
      ShiftSpan(Jan1, NULL, 6, 22),
      ShiftSpan(make_date(2026, 6, 30), NULL, 6, 22),
      ShiftSpan(make_date(2026, 7, 1), NULL, 6, 22) }

YearShiftIds == 1..(MaxShifts + 1)

YearShiftPayloads ==
    { span @@ key : span \in YearSpans,
                    key \in [id : YearShiftIds, user_id : Users,
                             organization_id : OrgIds, title : {"Shift"}] }

\* (year, month) of the months the calls name
YearMonths == {<<2025, 12>>, <<2026, 1>>, <<2026, 6>>, <<2026, 7>>}

YearStatement ==
    \/ \E u \in Users : SignUp(u, SignUpEmail, NULL_TEXT)
    \/ \E r \in AnalyticsOrgPayloads : InsertOrganization(Tenant(r.user_id), r)
    \/ \E r \in YearShiftPayloads : InsertShift(Tenant(r.user_id), r)
    \/ \E u \in Users, ym \in YearMonths :
         get_monthly_summary(Tenant(u), u, ym[1], ym[2])
    \/ \E u \in Users, y \in {2025, 2026} :
         get_financial_year_summary(Tenant(u), u, y)

YearNext ==
    (Idle /\ YearStatement /\ UNCHANGED <<hardened, inflight, client>>)
    \/ (Respond /\ UNCHANGED <<hardened, inflight, client>>)

YearSpec == Init /\ [][YearNext]_vars

----------------------------------------------------------------------------
(* Properties *)

\* the statement whose outcome is waiting is one of ops
Did(ops) == ~Idle /\ lastOp.op \in ops

NonPrivileged(c) == c.role # "service_role"

\* C1: every stored shift's (organization_id, user_id) is the (id, user_id) of
\* an existing organization, whoever wrote it; an insert of a shift that names
\* an organization of another tenant than its user_id is rejected and stores
\* nothing, also for a caller that bypasses the row-level policies.
C1_ShiftOrganizationSameTenant ==
    /\ \A s \in shifts :
         \E o \in organizations : o.id = s.organization_id /\ o.user_id = s.user_id
    /\ (Did({"insert_shift"})
        /\ \E o \in organizations :
             o.id = lastOp.row.organization_id /\ o.user_id # lastOp.row.user_id)
       => /\ lastOp.status \in {"rls_violation", "check_violation",
                                "unique_violation", "fk_violation"}
          /\ lastOp.n = 0
          /\ ~ \E s \in shifts : /\ s.organization_id = lastOp.row.organization_id
                                 /\ s.user_id = lastOp.row.user_id

\* C1 witness: the service role inserts a well-formed shift for tenant B into
\* an organization of tenant A, and the foreign key rejects it
C1_Witness ==
    /\ Did({"insert_shift"})
    /\ lastOp.caller.role = "service_role"
    /\ lastOp.status = "fk_violation"
    /\ \E p \in profiles : p.id = lastOp.row.user_id
    /\ \E o \in organizations :
         o.id = lastOp.row.organization_id /\ o.user_id # lastOp.row.user_id

\* C2: what a non-privileged caller's SELECT on profiles, organizations or
\* shifts returns are rows of that table whose owner column is the caller's
\* identity; a row of another tenant is never among them.
C2_SelectOnlyOwnRows ==
    /\ (Did({"select_profiles"}) /\ NonPrivileged(lastOp.caller))
       => /\ lastOp.result \subseteq profiles
          /\ \A r \in lastOp.result :
               lastOp.caller.uid # NULL /\ r.id = lastOp.caller.uid
    /\ (Did({"select_organizations"}) /\ NonPrivileged(lastOp.caller))
       => /\ lastOp.result \subseteq organizations
          /\ \A r \in lastOp.result :
               lastOp.caller.uid # NULL /\ r.user_id = lastOp.caller.uid
    /\ (Did({"select_shifts"}) /\ NonPrivileged(lastOp.caller))
       => /\ lastOp.result \subseteq shifts
          /\ \A r \in lastOp.result :
               lastOp.caller.uid # NULL /\ r.user_id = lastOp.caller.uid

\* C2 witness: tenant B reads organizations while tenant A has one too, and
\* gets its own row
C2_Witness ==
    /\ Did({"select_organizations"})
    /\ lastOp.caller.role = "authenticated"
    /\ lastOp.result # {}
    /\ \E o \in organizations : o.user_id # lastOp.caller.uid

\* the organizations and shifts a caller does not own
RowsOfOthers(c, table) == {r \in table : r.user_id # c.uid}

\* C3: an UPDATE or DELETE of a non-privileged caller that targets an
\* organization or a shift of another tenant affects zero rows and leaves every
\* row of the store as it was.
C3_ForeignWriteChangesNothing ==
    [][ ( /\ Idle
          /\ lastOp'.op \in {"update_shift", "delete_shift"}
          /\ NonPrivileged(lastOp'.caller)
          /\ \E s \in RowsOfOthers(lastOp'.caller, shifts) : s.id = lastOp'.target )
        \/
        ( /\ Idle
          /\ lastOp'.op \in {"update_organization", "delete_organization"}
          /\ NonPrivileged(lastOp'.caller)
          /\ \E o \in RowsOfOthers(lastOp'.caller, organizations) :
               o.id = lastOp'.target )
        => /\ lastOp'.n = 0
           /\ store' = store ]_vars

\* C3 witness: tenant B has tried to delete an organization of tenant A that
\* has a shift
C3_Witness ==
    /\ Did({"delete_organization"})
    /\ lastOp.caller.role = "authenticated"
    /\ lastOp.n = 0
    /\ \E o \in RowsOfOthers(lastOp.caller, organizations) :
         /\ o.id = lastOp.target
         /\ \E s \in shifts : s.organization_id = o.id

\* the owner column of an insert's payload
DeclaredOwner(op) ==
    IF op.op = "insert_profile" THEN op.row.id ELSE op.row.user_id

\* C4: an INSERT of a non-privileged caller into profiles, organizations or
\* shifts whose row declares another owner than the caller is rejected and
\* leaves the store unchanged; an insert that is accepted declares the caller.
C4_InsertOnlyAsSelf ==
    [][ ( /\ Idle
          /\ lastOp'.op \in {"insert_profile", "insert_organization", "insert_shift"}
          /\ NonPrivileged(lastOp'.caller) )
        => /\ (lastOp'.caller.uid = NULL
                  \/ DeclaredOwner(lastOp') # lastOp'.caller.uid)
               => /\ lastOp'.status = "rls_violation"
                  /\ lastOp'.n = 0
                  /\ store' = store
           /\ lastOp'.status = "ok"
               => /\ lastOp'.caller.uid # NULL
                  /\ DeclaredOwner(lastOp') = lastOp'.caller.uid ]_vars

\* C4 witness: tenant B has tried to insert an organization for tenant A, whose
\* profile exists, under an id and a name that are free
C4_Witness ==
    /\ Did({"insert_organization"})
    /\ lastOp.caller.role = "authenticated"
    /\ lastOp.row.user_id # lastOp.caller.uid
    /\ lastOp.status = "rls_violation"
    /\ \E p \in profiles : p.id = lastOp.row.user_id
    /\ ~ \E o \in organizations :
           o.id = lastOp.row.id
           \/ (o.user_id = lastOp.row.user_id /\ o.name = lastOp.row.name)

\* C5: an UPDATE of a non-privileged caller that is accepted changes a row the
\* caller owns into a row the caller owns; no UPDATE of a non-privileged caller
\* changes the owner of a profile, an organization or a shift.
C5_UpdateKeepsOwner ==
    [][ ( /\ Idle
          /\ lastOp'.op \in {"update_profile", "update_organization", "update_shift"}
          /\ NonPrivileged(lastOp'.caller) )
        => /\ {p.id : p \in profiles'} = {p.id : p \in profiles}
           /\ \A o \in organizations, o2 \in organizations' :
                o.id = o2.id => o.user_id = o2.user_id
           /\ \A s \in shifts, s2 \in shifts' :
                s.id = s2.id => s.user_id = s2.user_id
           /\ lastOp'.n = 1
               => /\ lastOp'.caller.uid # NULL
                  /\ lastOp'.op = "update_profile"
                      => lastOp'.target = lastOp'.caller.uid
                  /\ lastOp'.op = "update_organization"
                      => /\ \E o \in organizations :
                              o.id = lastOp'.target /\ o.user_id = lastOp'.caller.uid
                         /\ \E o \in organizations' :
                              o.id = lastOp'.target /\ o.user_id = lastOp'.caller.uid
                  /\ lastOp'.op = "update_shift"
                      => /\ \E s \in shifts :
                              s.id = lastOp'.target /\ s.user_id = lastOp'.caller.uid
                         /\ \E s \in shifts' :
                              s.id = lastOp'.target /\ s.user_id = lastOp'.caller.uid
      ]_vars

\* C5 witness: tenant B has tried to hand an organization of its own, which no
\* shift references, to tenant A, whose profile exists
C5_Witness ==
    /\ Did({"update_organization"})
    /\ lastOp.caller.role = "authenticated"
    /\ "user_id" \in DOMAIN lastOp.row
    /\ lastOp.row.user_id # lastOp.caller.uid
    /\ lastOp.status = "rls_violation"
    /\ \E p \in profiles : p.id = lastOp.row.user_id
    /\ \E o \in organizations :
         /\ o.id = lastOp.target
         /\ o.user_id = lastOp.caller.uid
         /\ ~ \E s \in shifts : s.organization_id = o.id
         /\ ~ \E o2 \in organizations :
                o2.user_id = lastOp.row.user_id /\ o2.name = o.name

\* the end date of a row or payload, an absent or NULL end_date read as date
EndDateOrDate(r) ==
    IF "end_date" \in DOMAIN r /\ r.end_date # NULL THEN r.end_date ELSE r.date

\* seconds from the start instant to the end instant of a row or payload
DurationSeconds(r) ==
    (EndDateOrDate(r) - r.date) * 86400 + r.end_time - r.start_time

\* the row an UPDATE's SET clause makes of a stored row, by its date and times
Updated(s, patch) ==
    [k \in {"date", "end_date", "start_time", "end_time"} |->
        IF k \in DOMAIN patch THEN patch[k] ELSE s[k]]

\* C6: every stored shift ends strictly after it starts; a shift insert or
\* update that passes the ownership policy is rejected by a CHECK constraint
\* exactly when the row it would store does not end strictly after it starts
\* (its end instant being end_date, or date when end_date is absent, plus
\* end_time), and an accepted one stores a row of positive duration.
C6_DurationPositive ==
    /\ \A s \in shifts : DurationSeconds(s) > 0
    /\ (Did({"insert_shift"}) /\ lastOp.status # "rls_violation")
       => /\ lastOp.status = "check_violation" <=> DurationSeconds(lastOp.row) <= 0
          /\ lastOp.status = "ok" => DurationSeconds(lastOp.row) > 0
    /\ (Did({"update_shift"}) /\ lastOp.status \notin {"rls_violation", "ok"})
       => \A s \in shifts :
            s.id = lastOp.target
            => (lastOp.status = "check_violation"
                  <=> DurationSeconds(Updated(s, lastOp.row)) <= 0)

\* C6 witness: a stored shift runs from 22:00 to 06:00 of the following day,
\* and the update that sets its end_date to its date has been rejected
C6_Witness ==
    /\ Did({"update_shift"})
    /\ lastOp.status = "check_violation"
    /\ \E s \in shifts :
         /\ s.id = lastOp.target
         /\ s.end_date = s.date + 1
         /\ s.start_time = TimeOfDay(22) /\ s.end_time = TimeOfDay(6)
         /\ DurationSeconds(s) = 8 * 3600
         /\ lastOp.row = [end_date |-> s.date]

\* C7: every stored shift has end_date >= date, an absent end_date read as
\* date; an insert or update whose row would have end_date before date and
\* that passes the ownership policy is rejected by a CHECK constraint.
C7_EndDateNotBeforeDate ==
    /\ \A s \in shifts : EndDateOrDate(s) >= s.date
    /\ (Did({"insert_shift"}) /\ EndDateOrDate(lastOp.row) < lastOp.row.date)
       => lastOp.status \in {"rls_violation", "check_violation"} /\ lastOp.n = 0
    /\ (Did({"update_shift"}) /\ lastOp.status \notin {"rls_violation", "ok"})
       => \A s \in shifts :
            (s.id = lastOp.target
               /\ EndDateOrDate(Updated(s, lastOp.row)) < Updated(s, lastOp.row).date)
            => lastOp.status = "check_violation"

\* C7 witness: the service role has tried to insert, for an organization and
\* its owner, a shift dated July 1 with end_date June 30
C7_Witness ==
    /\ Did({"insert_shift"})
    /\ lastOp.caller.role = "service_role"
    /\ "end_date" \in DOMAIN lastOp.row
    /\ lastOp.row.end_date < lastOp.row.date
    /\ lastOp.row.end_time > lastOp.row.start_time
    /\ lastOp.status = "check_violation"
    /\ \E o \in organizations :
         o.id = lastOp.row.organization_id /\ o.user_id = lastOp.row.user_id

AnalyticsFunctions ==
    {"get_monthly_summary", "get_financial_year_summary",
     "get_shifts_by_financial_year"}

\* C8: a call of an analytics function by a non-privileged caller whose
\* p_user_id is not the caller's own identity (NULL included) ends in an error
\* and returns no rows.
C8_ForeignOwnerRejected ==
    (Did(AnalyticsFunctions)
       /\ NonPrivileged(lastOp.caller)
       /\ (lastOp.caller.uid = NULL \/ lastOp.target # lastOp.caller.uid))
    => /\ lastOp.status \in {"permission_denied", "Not authenticated",
                             "p_user_id must match auth.uid()"}
       /\ lastOp.result = <<>>
       /\ lastOp.n = 0

\* C8 witness: tenant B has asked for the financial-year listing of tenant A,
\* who has a shift in that year
C8_Witness ==
    /\ Did({"get_shifts_by_financial_year"})
    /\ lastOp.caller.role = "authenticated"
    /\ lastOp.target # NULL
    /\ lastOp.target # lastOp.caller.uid
    /\ lastOp.status = "p_user_id must match auth.uid()"
    /\ \E s \in shifts :
         /\ s.user_id = lastOp.target
         /\ s.date >= make_date(lastOp.row.year, 7, 1)
         /\ s.date < make_date(lastOp.row.year + 1, 7, 1)

\* days of a month of the civil calendar
DaysInMonth(y, m) ==
    IF m \in {4, 6, 9, 11} THEN 30
    ELSE IF m # 2 THEN 31
    ELSE IF (y % 4 = 0 /\ y % 100 # 0) \/ y % 400 = 0 THEN 29 ELSE 28

\* the dates of a month; of the financial year that starts on July 1 of y
DatesOfMonth(y, m) == {make_date(y, m, d) : d \in 1..DaysInMonth(y, m)}

DatesOfFinancialYear(y) ==
    UNION ({DatesOfMonth(y, m) : m \in 7..12} \cup {DatesOfMonth(y + 1, m) : m \in 1..6})

\* the window a call's arguments name
DatesOfCall(op) ==
    IF op.op = "get_monthly_summary" THEN DatesOfMonth(op.row.year, op.row.month)
    ELSE DatesOfFinancialYear(op.row.year)

\* hours of a shift, from its dates and times
HoursOf(s) == (EndDateOrDate(s) - s.date) * 24 + (s.end_time - s.start_time) \div 3600

RECURSIVE TotalHoursOf(_)
TotalHoursOf(rows) ==
    IF rows = {} THEN 0
    ELSE LET s == CHOOSE x \in rows : TRUE
         IN  HoursOf(s) + TotalHoursOf(rows \ {s})

\* the shifts of tenant t in organization o that start on one of the dates
TenantShifts(t, o, dates) ==
    {s \in shifts : s.user_id = t /\ s.organization_id = o.id /\ s.date \in dates}

\* the summary of tenant t over the dates: one row for each of its organizations
TenantSummary(t, dates) ==
    { [organization_id |-> o.id,
       organization_name |-> o.name,
       organization_color |-> o.color,
       shift_count |-> Cardinality(TenantShifts(t, o, dates)),
       total_hours |-> TotalHoursOf(TenantShifts(t, o, dates))] :
      o \in {x \in organizations : x.user_id = t} }

\* the listing of tenant t over the dates: one row for each of its shifts
TenantListing(t, dates) ==
    { [id |-> s.id,
       organization_id |-> s.organization_id,
       organization_name |-> (CHOOSE o \in organizations : o.id = s.organization_id).name,
       organization_color |-> (CHOOSE o \in organizations : o.id = s.organization_id).color,
       title |-> s.title,
       date |-> s.date,
       start_time |-> s.start_time,
       end_time |-> s.end_time,
       hours_worked |-> HoursOf(s)] :
      s \in {x \in shifts : x.user_id = t /\ x.date \in dates} }

Range(q) == {q[i] : i \in DOMAIN q}

\* C9: a call of an analytics function by the service role with a p_user_id
\* that is not NULL (and a month from 1 to 12) succeeds, whatever identity the
\* caller carries, and returns exactly the rows computed over the
\* organizations and shifts of tenant p_user_id, each once.
C9_ServiceRoleGetsTenantResult ==
    (Did(AnalyticsFunctions)
       /\ lastOp.caller.role = "service_role"
       /\ lastOp.target # NULL
       /\ (lastOp.op = "get_monthly_summary" => lastOp.row.month \in 1..12))
    => /\ lastOp.status = "ok"
       /\ Len(lastOp.result) = Cardinality(Range(lastOp.result))
       /\ Range(lastOp.result) =
            IF lastOp.op = "get_shifts_by_financial_year"
            THEN TenantListing(lastOp.target, DatesOfCall(lastOp))
            ELSE TenantSummary(lastOp.target, DatesOfCall(lastOp))

\* C9 witness: a service-role caller that carries the identity of one tenant
\* has got the summary of another tenant, with a shift counted in it
C9_Witness ==
    /\ Did({"get_monthly_summary", "get_financial_year_summary"})
    /\ lastOp.caller.role = "service_role"
    /\ lastOp.caller.uid # NULL
    /\ lastOp.target # lastOp.caller.uid
    /\ lastOp.status = "ok"
    /\ \E i \in DOMAIN lastOp.result : lastOp.result[i].shift_count > 0

\* C10: no call of an analytics function by an anonymous caller (no
\* identity, role anon) succeeds, whatever p_user_id it passes; it returns
\* no rows.
C10_AnonymousDenied ==
    (Did(AnalyticsFunctions) /\ lastOp.caller = AnonCaller)
    => /\ lastOp.status # "ok"
       /\ lastOp.result = <<>>

\* C10 witness: an anonymous caller has asked for the summary of a tenant that
\* has an organization, and was denied the function
C10_Witness ==
    /\ Did({"get_financial_year_summary"})
    /\ lastOp.caller = AnonCaller
    /\ lastOp.status = "permission_denied"
    /\ \E o \in organizations : o.user_id = lastOp.target

\* C14: a call of get_monthly_summary (the one analytics function that takes a
\* month) with p_month below 1 or above 12 ends in an error and returns no
\* rows; for a caller that passes the identity check the error is the explicit
\* 'p_month must be between 1 and 12'.
C14_MonthOutOfRangeRejected ==
    (Did({"get_monthly_summary"}) /\ lastOp.row.month \notin 1..12)
    => /\ lastOp.status # "ok"
       /\ lastOp.result = <<>>
       /\ lastOp.n = 0
       /\ ( \/ (lastOp.caller.role = "authenticated"
                 /\ lastOp.target = lastOp.caller.uid)
            \/ (lastOp.caller.role = "service_role" /\ lastOp.target # NULL) )
          => lastOp.status = "p_month must be between 1 and 12"

\* C14 witness: a tenant that has an organization has asked for its own summary
\* of month 13 and got the explicit error
C14_Witness ==
    /\ Did({"get_monthly_summary"})
    /\ lastOp.row.month = 13
    /\ lastOp.caller.role = "authenticated"
    /\ lastOp.target = lastOp.caller.uid
    /\ lastOp.status = "p_month must be between 1 and 12"
    /\ \E o \in organizations : o.user_id = lastOp.caller.uid

\* C15: no stored shift names an organization or an owner that does not exist,
\* no stored organization names an owner that does not exist; once an
\* organization is deleted no shift references it, once a profile (or its
\* identity) is deleted no organization and no shift of it remains.
C15_DeleteCascades ==
    /\ \A s \in shifts :
         /\ \E o \in organizations : o.id = s.organization_id
         /\ \E p \in profiles : p.id = s.user_id
    /\ \A o \in organizations : \E p \in profiles : p.id = o.user_id
    /\ \A p \in profiles : p.id \in authUsers
    /\ (Did({"delete_organization"}) /\ lastOp.n = 1)
       => /\ ~ \E o \in organizations : o.id = lastOp.target
          /\ ~ \E s \in shifts : s.organization_id = lastOp.target
    /\ (Did({"delete_profile", "delete_auth_user"}) /\ lastOp.n = 1)
       => /\ ~ \E p \in profiles : p.id = lastOp.target
          /\ ~ \E o \in organizations : o.user_id = lastOp.target
          /\ ~ \E s \in shifts : s.user_id = lastOp.target

\* C15 witness: an owner has deleted an organization of its own while another
\* tenant's organization stays, and no shift is left
C15_Witness ==
    /\ Did({"delete_organization"})
    /\ lastOp.caller.role = "authenticated"
    /\ lastOp.n = 1
    /\ organizations # {}
    /\ shifts = {}

\* the call whose outcome is waiting passes the identity check: an
\* authenticated caller asking for itself, or the service role naming a tenant
Authorized(op) ==
    \/ (op.caller.role = "authenticated" /\ op.target = op.caller.uid)
    \/ (op.caller.role = "service_role" /\ op.target # NULL)

\* the shifts of organization o that start on one of the dates
ShiftsOfOrganization(o, dates) ==
    {s \in shifts : s.organization_id = o.id /\ s.date \in dates}

\* C11: an authorized get_monthly_summary(owner, year, month) with month in
\* 1..12 succeeds and returns exactly one row for each organization of owner
\* and no other row; the row's shift_count is the number of the organization's
\* shifts that start in the month, its total_hours the sum of their durations
\* in hours, both 0 for an organization without a shift in the month.
C11_MonthlySummaryCorrect ==
    (Did({"get_monthly_summary"}) /\ Authorized(lastOp)
       /\ lastOp.row.month \in 1..12)
    => LET owned == {o \in organizations : o.user_id = lastOp.target}
           dates == DatesOfMonth(lastOp.row.year, lastOp.row.month)
           rows == lastOp.result
       IN  /\ lastOp.status = "ok"
           /\ Len(rows) = Cardinality(owned)
           /\ \A i \in DOMAIN rows : \E o \in owned : rows[i].organization_id = o.id
           /\ \A o \in owned :
                \E i \in DOMAIN rows :
                  /\ rows[i].organization_id = o.id
                  /\ rows[i].organization_name = o.name
                  /\ rows[i].organization_color = o.color
                  /\ rows[i].shift_count = Cardinality(ShiftsOfOrganization(o, dates))
                  /\ rows[i].total_hours = TotalHoursOf(ShiftsOfOrganization(o, dates))
                  /\ ShiftsOfOrganization(o, dates) = {}
                      => rows[i].shift_count = 0 /\ rows[i].total_hours = 0

\* C11 witness: a tenant with two organizations, one with a shift of 16 and one
\* of 8 hours in June and a shift in July, the other without shifts, has got
\* its summary of June: 2 shifts and 24 hours for the one, 0 and 0 for the other
C11_Witness ==
    /\ Did({"get_monthly_summary"})
    /\ lastOp.caller.role = "authenticated"
    /\ lastOp.row.month = 6
    /\ Len(lastOp.result) = 2
    /\ lastOp.result[1].shift_count = 2 /\ lastOp.result[1].total_hours = 24
    /\ lastOp.result[2].shift_count = 0 /\ lastOp.result[2].total_hours = 0
    /\ \E s \in shifts :
         s.organization_id = lastOp.result[1].organization_id /\ s.date = July1

\* start years of financial years around the shifts of the model
FinancialYears == 2023..2026

\* date d is one of July 1 of y .. June 30 of y + 1
InFinancialYear(d, y) == make_date(y, 7, 1) <= d /\ d <= make_date(y + 1, 6, 30)

\* the ids of the rows of a listing
ListedIds(rows) == {rows[i].id : i \in DOMAIN rows}

\* C12: an authorized get_shifts_by_financial_year(owner, Y) lists a shift of
\* owner if and only if it starts on a date from July 1 of Y to June 30 of
\* Y + 1, and get_financial_year_summary(owner, Y) counts exactly those: a
\* shift of June 30, 2025 is in financial year 2024 and not in 2025, a shift
\* of July 1, 2025 is in 2025 and not in 2024; the window of exactly one
\* financial year holds any shift.
C12_FinancialYearBoundary ==
    /\ (Did({"get_shifts_by_financial_year"}) /\ Authorized(lastOp))
       => /\ lastOp.status = "ok"
          /\ ListedIds(lastOp.result) =
               {s.id : s \in {x \in shifts :
                                /\ x.user_id = lastOp.target
                                /\ InFinancialYear(x.date, lastOp.row.year)}}
          /\ \A s \in shifts :
               s.user_id = lastOp.target
               => /\ s.date = make_date(2025, 6, 30)
                      => (s.id \in ListedIds(lastOp.result) <=> lastOp.row.year = 2024)
                  /\ s.date = make_date(2025, 7, 1)
                      => (s.id \in ListedIds(lastOp.result) <=> lastOp.row.year = 2025)
    /\ (Did({"get_financial_year_summary"}) /\ Authorized(lastOp))
       => /\ lastOp.status = "ok"
          /\ \A i \in DOMAIN lastOp.result :
               lastOp.result[i].shift_count =
                 Cardinality({s \in shifts :
                                /\ s.organization_id = lastOp.result[i].organization_id
                                /\ InFinancialYear(s.date, lastOp.row.year)})
          /\ \A o \in organizations :
               o.user_id = lastOp.target
               => \E i \in DOMAIN lastOp.result :
                    /\ lastOp.result[i].organization_id = o.id
                    /\ lastOp.result[i].shift_count =
                         Cardinality({s \in shifts :
                            /\ s.organization_id = o.id
                            /\ \/ (s.date = make_date(2025, 6, 30)
                                      /\ lastOp.row.year = 2024)
                               \/ (s.date = make_date(2025, 7, 1)
                                      /\ lastOp.row.year = 2025)})
    /\ \A s \in shifts :
         Cardinality({y \in FinancialYears :
                        FyStart(y) <= s.date /\ s.date < FyEnd(y)}) = 1

\* C12 witness: a tenant with a shift on June 30, 2025 and a shift on July 1,
\* 2025 has got its listing of financial year 2024: the first shift alone
C12_Witness ==
    /\ Did({"get_shifts_by_financial_year"})
    /\ lastOp.caller.role = "authenticated"
    /\ lastOp.row.year = 2024
    /\ Len(lastOp.result) = 1
    /\ lastOp.result[1].date = make_date(2025, 6, 30)
    /\ \E s \in shifts :
         s.user_id = lastOp.target /\ s.date = make_date(2025, 7, 1)

\* the stored shift a row of the listing stands for
ShiftOfRow(row) == CHOOSE s \in shifts : s.id = row.id

\* hours between two times of the same day
SameDayHours(s) == (s.end_time - s.start_time) \div 3600

\* C13: the hours the three functions report for a shift are the hours from
\* date + start_time to (end_date, or date when end_date is absent) + end_time:
\* 8 for a shift from 22:00 to 06:00 of the next day, and 24 * k more than the
\* hours between its times of day for a shift whose end_date is k days after
\* its date; a summary's total_hours is the sum of these over the shifts it
\* counts.
C13_HoursFromDateAndTime ==
    /\ (Did({"get_shifts_by_financial_year"}) /\ lastOp.status = "ok")
       => \A i \in DOMAIN lastOp.result :
            LET s == ShiftOfRow(lastOp.result[i])
                k == EndDateOrDate(s) - s.date
            IN  /\ lastOp.result[i].hours_worked = SameDayHours(s) + 24 * k
                /\ (k = 1 /\ s.start_time = 22 * 3600 /\ s.end_time = 6 * 3600)
                   => lastOp.result[i].hours_worked = 8
                /\ \A j \in DOMAIN lastOp.result :
                     LET s2 == ShiftOfRow(lastOp.result[j])
                     IN  (s2.start_time = s.start_time /\ s2.end_time = s.end_time)
                         => lastOp.result[i].hours_worked
                              - lastOp.result[j].hours_worked
                            = 24 * (k - (EndDateOrDate(s2) - s2.date))
    /\ (Did({"get_monthly_summary", "get_financial_year_summary"})
          /\ lastOp.status = "ok")
       => \A i \in DOMAIN lastOp.result :
            LET counted ==
                  {s \in shifts :
                     /\ s.organization_id = lastOp.result[i].organization_id
                     /\ IF lastOp.op = "get_monthly_summary"
                        THEN s.date \in DatesOfMonth(lastOp.row.year, lastOp.row.month)
                        ELSE InFinancialYear(s.date, lastOp.row.year)}
            IN  lastOp.result[i].total_hours = TotalHoursOf(counted)

\* C13 witness: a listing holds the shift from June 30 22:00 to July 1 06:00
\* with 8 hours, and the shifts from 06:00 to 22:00 that end on June 30 and on
\* July 1 with 16 and 40 hours
C13_Witness ==
    /\ Did({"get_shifts_by_financial_year"})
    /\ Len(lastOp.result) = 3
    /\ \E i, j, l \in DOMAIN lastOp.result :
         /\ lastOp.result[i].hours_worked = 8
         /\ lastOp.result[i].start_time = TimeOfDay(22)
         /\ lastOp.result[j].hours_worked = 16
         /\ lastOp.result[l].hours_worked = 40
         /\ lastOp.result[j].start_time = lastOp.result[l].start_time
         /\ lastOp.result[j].end_time = lastOp.result[l].end_time
         /\ lastOp.result[j].date = lastOp.result[l].date

\* the row of a table with the given key
RowWithId(table, id) == CHOOSE r \in table : r.id = id

\* C16: every successful update of a row of profiles, organizations or shifts
\* leaves the row with an updated_at strictly later than the one it had,
\* whether or not the payload of the update names updated_at.
C16_UpdatedAtStrictlyIncreases ==
    [][ ( /\ Idle
          /\ lastOp'.op \in {"update_profile", "update_organization", "update_shift"}
          /\ lastOp'.n = 1 )
        => /\ lastOp'.op = "update_profile"
               => RowWithId(profiles', lastOp'.target).updated_at
                    > RowWithId(profiles, lastOp'.target).updated_at
           /\ lastOp'.op = "update_organization"
               => RowWithId(organizations', lastOp'.target).updated_at
                    > RowWithId(organizations, lastOp'.target).updated_at
           /\ lastOp'.op = "update_shift"
               => RowWithId(shifts', lastOp'.target).updated_at
                    > RowWithId(shifts, lastOp'.target).updated_at ]_vars

\* C17: however often provisioning runs for an identity, the identity has
\* exactly one profile; a delivery for an identity that has a profile does not
\* fail over the duplicate, and leaves on the profile the email it carried.
C17_ProvisioningIdempotent ==
    /\ \A u \in authUsers : Cardinality({p \in profiles : p.id = u}) = 1
    /\ \A p \in profiles : p.id \in authUsers
    /\ (Did({"provision"}) /\ lastOp.row.email # NULL_TEXT)
       => /\ lastOp.status = "ok"
          /\ Cardinality({p \in profiles : p.id = lastOp.target}) = 1
          /\ \A p \in profiles : p.id = lastOp.target => p.email = lastOp.row.email

\* C17 witness: the event of an identity that signed up with one email has
\* been delivered again with another, which the one profile now carries,
\* while the other identity's profile keeps the email it signed up with
C17_Witness ==
    /\ Did({"provision"})
    /\ lastOp.status = "ok"
    /\ lastOp.row.email = "new@example.com"
    /\ \E p \in profiles : p.id = lastOp.target /\ p.email = "new@example.com"
    /\ \E p \in profiles : p.id # lastOp.target /\ p.email = SignUpEmail

\* C18: when provisioning runs for an identity whose profile has a full_name
\* that is not empty, and the delivery carries an empty full_name or none,
\* the profile keeps its full_name.
C18_FullNamePreserved ==
    [][ ( /\ Idle
          /\ lastOp'.op = "provision"
          /\ lastOp'.status = "ok"
          /\ lastOp'.row.full_name \in {NULL_TEXT, ""}
          /\ \E p \in profiles :
               p.id = lastOp'.target /\ p.full_name \notin {NULL_TEXT, ""} )
        => RowWithId(profiles', lastOp'.target).full_name
             = RowWithId(profiles, lastOp'.target).full_name ]_vars

\* the shifts whose organization belongs to another user than the shift
OwnerMismatches ==
    {s \in shifts : \E o \in organizations :
                       o.id = s.organization_id /\ o.user_id # s.user_id}

\* the shifts that do not end after they start, or end on a date before their
\* date
BadRanges ==
    {s \in shifts : DurationSeconds(s) <= 0 \/ EndDateOrDate(s) < s.date}

\* C19: when the hardening migration starts on a store in which a shift
\* references an organization of another user, or does not end after it
\* starts, or has an end_date before its date, it ends in an error that carries
\* the number of such shifts, and the store and the schema are as before: no
\* timestamp is filled in and the migration is not applied.
C19_MigrationBlockedOnViolations ==
    [][ ( /\ Idle
          /\ lastOp'.op = "migrate"
          /\ (OwnerMismatches # {} \/ BadRanges # {}) )
        => /\ lastOp'.status # "ok"
           /\ lastOp'.n = IF OwnerMismatches # {}
                          THEN Cardinality(OwnerMismatches)
                          ELSE Cardinality(BadRanges)
           /\ lastOp'.n > 0
           /\ store' = store
           /\ hardened' = FALSE ]_vars

\* C19 witness: the migration has been blocked over one shift with an invalid
\* range, among shifts of matching owners; the schema is the old one and a
\* NULL updated_at is still in place
C19_Witness ==
    /\ Did({"migrate"})
    /\ lastOp.status = "Migration blocked: shift rows have invalid date/time ranges"
    /\ lastOp.n = 1
    /\ ~hardened
    /\ OwnerMismatches = {}
    /\ \E s \in shifts : s.updated_at = NULL

\* the declared constraints of the three tables, over a whole store
ConstraintsHold(au, profs, orgs, shs) ==
    /\ ForeignKeysHold(au, profs, orgs, shs)
    /\ \A o \in orgs : /\ organizations_not_null(o)
                        /\ organizations_id_user_id_key(orgs \ {o}, o)
                        /\ organizations_user_id_name_key(orgs \ {o}, o)
    /\ \A s \in shs : /\ shifts_not_null(s)
                       /\ shifts_pkey(shs \ {s}, s)
                       /\ shifts_end_not_before_start_date(s)
                       /\ shifts_duration_positive(s)

\* the shift a request would store does not name an organization that its
\* owner has in the store as it is when the request executes
NamesLostOrganization(op) ==
    \/ /\ op.op = "insert_shift"
       /\ ~ \E o \in organizations :
              o.id = op.row.organization_id /\ o.user_id = op.row.user_id
    \/ /\ op.op = "update_shift"
       /\ \E s \in shifts :
            /\ s.id = op.target
            /\ ~ \E o \in organizations :
                   o.id = op.row.organization_id /\ o.user_id = s.user_id

\* C20: with requests of different callers in flight together and executed in
\* any order, every statement leaves a store that satisfies every declared
\* constraint; a statement of a non-privileged caller leaves the organizations
\* and shifts of the other tenants as they were; and a shift insert or update
\* that was prepared against an organization the caller saw, and executes
\* after that organization was deleted or handed to another owner, is checked
\* against the store as it is at execution: it affects no row and stores
\* nothing.
C20_ChecksAtomicWithWrite ==
    [][ (Idle /\ ~Idle')
        => /\ ConstraintsHold(authUsers', profiles', organizations', shifts')
           /\ NonPrivileged(lastOp'.caller)
               => /\ RowsOfOthers(lastOp'.caller, organizations')
                       = RowsOfOthers(lastOp'.caller, organizations)
                  /\ RowsOfOthers(lastOp'.caller, shifts')
                       = RowsOfOthers(lastOp'.caller, shifts)
           /\ NamesLostOrganization(lastOp')
               => /\ lastOp'.n = 0
                  /\ shifts' = shifts ]_vars

\* C20 witness: a tenant with a profile prepared a shift for an organization
\* on its list; before the insert executed the organization was deleted or
\* handed to another owner, and the foreign key rejected the insert
C20_Witness ==
    /\ Did({"insert_shift"})
    /\ lastOp.caller.role = "authenticated"
    /\ lastOp.row.user_id = lastOp.caller.uid
    /\ \E p \in profiles : p.id = lastOp.caller.uid
    /\ lastOp.status = "fk_violation"
    /\ lastOp.n = 0
    /\ ~ \E o \in organizations :
           o.id = lastOp.row.organization_id /\ o.user_id = lastOp.caller.uid
    /\ ~ \E r \in inflight : r.caller = lastOp.caller

\* C21: every stored organization has an hourly_rate that is present and not
\* negative, and an organization inserted with no hourly_rate in its payload
\* is stored with hourly_rate 0.
C21_HourlyRateNonNegative ==
    /\ \A o \in organizations : o.hourly_rate # NULL /\ o.hourly_rate >= 0
    /\ (Did({"insert_organization"}) /\ lastOp.n = 1
        /\ "hourly_rate" \notin DOMAIN lastOp.row)
       => RowWithId(organizations, lastOp.target).hourly_rate = 0

\* the client hooks that update or delete one row
MutationHooks == {"updateShift", "deleteShift", "updateOrganization", "deleteOrganization"}

\* C22: a call of updateShift, deleteShift, updateOrganization or
\* deleteOrganization whose statement affects zero rows returns false with an
\* error set, whether the row does not exist or is another tenant's, and
\* leaves the session's lists as they were.
C22_ZeroRowsReportedAsFailure ==
    [][ \A u \in Users :
          ( /\ Idle
            /\ client'[u].hook \in MutationHooks
            /\ lastOp'.status = "ok"
            /\ lastOp'.n = 0 )
          => /\ client'[u].returned = FALSE
             /\ client'[u].error # NULL_TEXT
             /\ client'[u].organizations = client[u].organizations
             /\ client'[u].shifts = client[u].shifts ]_vars

\* the indices of a listing's rows that carry the id of shift s
RowsOfShift(rows, s) == {i \in DOMAIN rows : rows[i].id = s.id}

\* the shifts of an owner that start in financial year y
ShiftsInFinancialYear(owner, y) ==
    {s \in shifts : s.user_id = owner /\ InFinancialYear(s.date, y)}

\* C23: an authorized get_shifts_by_financial_year(owner, Y) succeeds and
\* returns exactly one row for each shift of owner that starts in the
\* financial year, and no row for anything else; the row of a shift carries
\* the shift's id, title, date and times, the name and colour of the
\* organization the shift references, and the shift's hours.
C23_ListingOneRowPerShift ==
    (Did({"get_shifts_by_financial_year"}) /\ Authorized(lastOp))
    => /\ lastOp.status = "ok"
       /\ \A s \in ShiftsInFinancialYear(lastOp.target, lastOp.row.year) :
            /\ Cardinality(RowsOfShift(lastOp.result, s)) = 1
            /\ \A i \in RowsOfShift(lastOp.result, s) :
                 /\ lastOp.result[i].organization_id = s.organization_id
                 /\ \E o \in organizations :
                      /\ o.id = s.organization_id
                      /\ lastOp.result[i].organization_name = o.name
                      /\ lastOp.result[i].organization_color = o.color
                 /\ lastOp.result[i].title = s.title
                 /\ lastOp.result[i].date = s.date
                 /\ lastOp.result[i].start_time = s.start_time
                 /\ lastOp.result[i].end_time = s.end_time
                 /\ lastOp.result[i].hours_worked = HoursOf(s)
       /\ \A i \in DOMAIN lastOp.result :
            \E s \in ShiftsInFinancialYear(lastOp.target, lastOp.row.year) :
                lastOp.result[i].id = s.id

\* C23 witness: an owner with two organizations has got a listing of two
\* shifts, one in each organization, while it has a third shift outside the
\* financial year
C23_Witness ==
    /\ Did({"get_shifts_by_financial_year"})
    /\ Authorized(lastOp)
    /\ Len(lastOp.result) = 2
    /\ lastOp.result[1].organization_name # lastOp.result[2].organization_name
    /\ \E s \in shifts :
         s.user_id = lastOp.target /\ ~InFinancialYear(s.date, lastOp.row.year)

\* C24: in what get_shifts_by_financial_year returns, each row's date is not
\* before the date of the row ahead of it, and of two neighbouring rows with
\* the same date the second does not start earlier in the day.
C24_ListingChronological ==
    (Did({"get_shifts_by_financial_year"}) /\ lastOp.status = "ok")
    => \A i \in DOMAIN lastOp.result :
         i + 1 \in DOMAIN lastOp.result
         => /\ lastOp.result[i].date <= lastOp.result[i + 1].date
            /\ lastOp.result[i].date = lastOp.result[i + 1].date
                => lastOp.result[i].start_time <= lastOp.result[i + 1].start_time

\* C24 witness: a listing of three shifts that were not stored in this order:
\* the morning and the overnight shift of June 29, then a shift of June 30
C24_Witness ==
    /\ Did({"get_shifts_by_financial_year"})
    /\ Len(lastOp.result) = 3
    /\ lastOp.result[1].date = June29
    /\ lastOp.result[2].date = June29
    /\ lastOp.result[1].start_time < lastOp.result[2].start_time
    /\ lastOp.result[3].date = June30
    /\ lastOp.result[1].id > lastOp.result[3].id

RECURSIVE SumHoursWorked(_)
\* the sum of hours_worked over a set of listing rows
SumHoursWorked(rows) ==
    IF rows = {} THEN 0
    ELSE LET r == CHOOSE x \in rows : TRUE
         IN  r.hours_worked + SumHoursWorked(rows \ {r})

\* the rows of a listing that belong to organization o
ListedFor(listing, o) == {l \in listing : l.organization_id = o}

\* a summary and a listing agree: each summary row counts the listing rows of
\* its organization and totals their hours, and every listing row's
\* organization has a summary row
Agree(summary, listing) ==
    /\ \A r \in summary :
         /\ r.shift_count = Cardinality(ListedFor(listing, r.organization_id))
         /\ r.total_hours = SumHoursWorked(ListedFor(listing, r.organization_id))
    /\ \A l \in listing : \E r \in summary : r.organization_id = l.organization_id

\* C25: what a successful get_financial_year_summary(owner, Y) returns agrees
\* with the rows get_shifts_by_financial_year(owner, Y) gives the same caller
\* on the same store, and what a successful get_shifts_by_financial_year
\* returns agrees with the rows of get_financial_year_summary: per
\* organization the shift_count is the number of listing rows and the
\* total_hours the sum of their hours_worked, and no listing row is of an
\* organization the summary lacks.
C25_SummaryAgreesWithListing ==
    /\ (Did({"get_financial_year_summary"}) /\ lastOp.status = "ok")
       => Agree(Range(lastOp.result),
                ShiftsByFinancialYearRows(lastOp.caller, lastOp.target,
                                          lastOp.row.year))
    /\ (Did({"get_shifts_by_financial_year"}) /\ lastOp.status = "ok")
       => Agree(FinancialYearSummaryRows(lastOp.caller, lastOp.target,
                                         lastOp.row.year),
                Range(lastOp.result))

\* C25 witness: a summary of an owner with two organizations, one with two
\* shifts in the financial year and one with none, while the owner has a
\* shift outside the financial year
C25_Witness ==
    /\ Did({"get_financial_year_summary"})
    /\ lastOp.status = "ok"
    /\ Len(lastOp.result) = 2
    /\ lastOp.result[1].shift_count = 2
    /\ lastOp.result[2].shift_count = 0
    /\ Cardinality(ShiftsByFinancialYearRows(lastOp.caller, lastOp.target,
                                             lastOp.row.year)) = 2
    /\ \E s \in shifts :
         s.user_id = lastOp.target /\ ~InFinancialYear(s.date, lastOp.row.year)

\* the twelve months of the financial year that starts on July 1 of y
MonthsOfFinancialYear(y) ==
    {<<y, m>> : m \in 7..12} \cup {<<y + 1, m>> : m \in 1..6}

\* a column of organization o's row in a set of summary rows, 0 without a row
SummaryValue(rows, o, column) ==
    LET hit == {r \in rows : r.organization_id = o}
    IN  IF hit = {} THEN 0 ELSE (CHOOSE r \in hit : TRUE)[column]

RECURSIVE SumOverMonths(_, _, _, _, _)
\* the sum of a column of organization o's rows in the caller's monthly
\* summaries of the months
SumOverMonths(c, owner, months, o, column) ==
    IF months = {} THEN 0
    ELSE LET ym == CHOOSE x \in months : TRUE
         IN  SummaryValue(MonthlySummaryRows(c, owner, ym[1], ym[2]), o, column)
               + SumOverMonths(c, owner, months \ {ym}, o, column)

\* C26: what a successful get_financial_year_summary(owner, Y) returns for an
\* organization is, in shift_count and in total_hours, the sum of what
\* get_monthly_summary gives the same caller on the same store for July to
\* December of Y and January to June of Y + 1; and what a successful
\* get_monthly_summary returns for a month of financial year Y is what is
\* left of the financial year's values after the other eleven months.
C26_MonthsPartitionFinancialYear ==
    /\ (Did({"get_financial_year_summary"}) /\ lastOp.status = "ok")
       => \A i \in DOMAIN lastOp.result :
            \A column \in {"shift_count", "total_hours"} :
              lastOp.result[i][column] =
                SumOverMonths(lastOp.caller, lastOp.target,
                              MonthsOfFinancialYear(lastOp.row.year),
                              lastOp.result[i].organization_id, column)
    /\ (Did({"get_monthly_summary"}) /\ lastOp.status = "ok")
       => \A y \in {2025, 2026} :
            <<lastOp.row.year, lastOp.row.month>> \in MonthsOfFinancialYear(y)
            => \A i \in DOMAIN lastOp.result :
                 \A column \in {"shift_count", "total_hours"} :
                   lastOp.result[i][column]
                     + SumOverMonths(lastOp.caller, lastOp.target,
                                     MonthsOfFinancialYear(y)
                                       \ {<<lastOp.row.year, lastOp.row.month>>},
                                     lastOp.result[i].organization_id, column)
                   = SummaryValue(FinancialYearSummaryRows(lastOp.caller,
                                                           lastOp.target, y),
                                  lastOp.result[i].organization_id, column)

\* C26 witness: the summary of financial year 2025 counts, in one
\* organization, the overnight shift from December 31, 2025 to January 1, 2026
\* and a shift of January 1, 2026: 2 shifts and 24 hours, of which December
\* has 1 shift and 8 hours and January 1 shift and 16 hours
C26_Witness ==
    /\ Did({"get_financial_year_summary"})
    /\ lastOp.status = "ok"
    /\ lastOp.row.year = 2025
    /\ \E i \in DOMAIN lastOp.result :
         /\ lastOp.result[i].shift_count = 2
         /\ lastOp.result[i].total_hours = 24
         /\ SummaryValue(MonthlySummaryRows(lastOp.caller, lastOp.target, 2025, 12),
                         lastOp.result[i].organization_id, "total_hours") = 8
         /\ SummaryValue(MonthlySummaryRows(lastOp.caller, lastOp.target, 2026, 1),
                         lastOp.result[i].organization_id, "shift_count") = 1

\* the three constraints the migration adds to shifts hold for row s
MeetsNewConstraints(s) ==
    /\ shifts_organization_user_fkey(organizations, s)
    /\ shifts_end_not_before_start_date(s)
    /\ shifts_duration_positive(s)

\* C27: on a store under the initial schema, the precheck of the hardening
\* migration passes exactly when every shift satisfies the composite foreign
\* key, end_date >= date and the positive duration, rows without an end_date
\* included; and a run of the migration never fails where it adds the
\* constraints.
C27_PrecheckCoversConstraints ==
    /\ ~hardened
       => (MigrationStatus = "ok" <=> \A s \in shifts : MeetsNewConstraints(s))
    /\ Did({"migrate"}) => lastOp.status \notin {"fk_violation", "check_violation"}

\* C27 witness: the migration has gone through on a store with a shift
\* without end_date and an overnight shift with one
C27_Witness ==
    /\ Did({"migrate"})
    /\ lastOp.status = "ok"
    /\ hardened
    /\ \E s \in shifts : s.end_date = NULL
    /\ \E s \in shifts : s.end_date # NULL /\ s.end_time < s.start_time

\* the update gives organization o, which a shift references, another owner
ReownsReferencedOrganization(op) ==
    /\ op.op = "update_organization"
    /\ "user_id" \in DOMAIN op.row
    /\ \E o \in organizations :
         /\ o.id = op.target
         /\ o.user_id # op.row.user_id
         /\ \E s \in shifts : s.organization_id = o.id

\* the update gives shift s a (organization_id, user_id) that is the
\* (id, user_id) of no organization
UnpairsShift(op) ==
    /\ op.op = "update_shift"
    /\ \E s \in shifts :
         /\ s.id = op.target
         /\ LET new == Patch(s, op.row)
            IN  ~ \E o \in organizations :
                   o.id = new.organization_id /\ o.user_id = new.user_id

\* C28: an update that gives an organization with a shift another owner, or
\* gives a shift an organization_id and user_id that match no organization,
\* affects no row and leaves organizations and shifts as they were; for a
\* caller that bypasses the row-level policies it ends in an error.  After
\* every statement each shift's organization has the shift's owner.
C28_OwnershipCannotDiverge ==
    [][ (Idle /\ ~Idle')
        => /\ (ReownsReferencedOrganization(lastOp') \/ UnpairsShift(lastOp'))
              => /\ lastOp'.n = 0
                 /\ organizations' = organizations
                 /\ shifts' = shifts
                 /\ BypassesRLS(lastOp'.caller) => lastOp'.status # "ok"
           /\ \A s \in shifts' :
                \E o \in organizations' :
                    o.id = s.organization_id /\ o.user_id = s.user_id ]_vars

\* C28 witness: the service role has tried to hand an organization that has a
\* shift to another user with a profile, and the foreign key of the shifts
\* stopped it
C28_Witness ==
    /\ Did({"update_organization"})
    /\ lastOp.caller.role = "service_role"
    /\ "user_id" \in DOMAIN lastOp.row
    /\ lastOp.status = "fk_violation"
    /\ \E p \in profiles : p.id = lastOp.row.user_id
    /\ \E o \in organizations :
         /\ o.id = lastOp.target
         /\ o.user_id # lastOp.row.user_id
         /\ \E s \in shifts : s.organization_id = o.id /\ s.user_id = o.user_id

\* C29: every row a successful get_shifts_by_financial_year returns has
\* hours_worked > 0, and every row a successful get_monthly_summary or
\* get_financial_year_summary returns has total_hours >= 0, with total_hours
\* 0 exactly when its shift_count is 0.
C29_HoursPositive ==
    /\ (Did({"get_shifts_by_financial_year"}) /\ lastOp.status = "ok")
       => \A i \in DOMAIN lastOp.result : lastOp.result[i].hours_worked > 0
    /\ (Did({"get_monthly_summary", "get_financial_year_summary"})
          /\ lastOp.status = "ok")
       => \A i \in DOMAIN lastOp.result :
            /\ lastOp.result[i].total_hours >= 0
            /\ lastOp.result[i].total_hours = 0 <=> lastOp.result[i].shift_count = 0

\* C29 witness: a summary with one organization that has a shift and hours,
\* and one that has neither
C29_Witness ==
    /\ Did({"get_monthly_summary", "get_financial_year_summary"})
    /\ lastOp.status = "ok"
    /\ Len(lastOp.result) = 2
    /\ lastOp.result[1].shift_count = 1
    /\ lastOp.result[1].total_hours > 0
    /\ lastOp.result[2].shift_count = 0
    /\ lastOp.result[2].total_hours = 0

\* the shifts of organization o that start on June 30, 2025 and end on
\* July 1, 2025
AcrossJune30(o) ==
    {s \in shifts : s.organization_id = o /\ s.date = June30 /\ s.end_date = July1}

\* shift s starts in the month or the financial year a call names
StartsInWindow(s, op) ==
    IF op.op = "get_monthly_summary"
    THEN s.date \in DatesOfMonth(op.row.year, op.row.month)
    ELSE InFinancialYear(s.date, op.row.year)

\* the other shifts of organization o that start in the window of a call
OthersIn(o, op) ==
    {s \in shifts : s.organization_id = o /\ StartsInWindow(s, op)}
      \ AcrossJune30(o)

\* the window of a successful call holds June 30, 2025
WindowOfJune30(op) ==
    \/ op.op = "get_monthly_summary" /\ op.row.year = 2025 /\ op.row.month = 6
    \/ op.op # "get_monthly_summary" /\ op.row.year = 2024

\* the window of a successful call holds July 1, 2025
WindowOfJuly1(op) ==
    \/ op.op = "get_monthly_summary" /\ op.row.year = 2025 /\ op.row.month = 7
    \/ op.op # "get_monthly_summary" /\ op.row.year = 2025

\* C30: a shift that starts on June 30, 2025 and ends on July 1, 2025 counts
\* with its whole duration, 24 hours and the hours between its times of day,
\* in the summaries of June 2025 and of financial year 2024, and is listed in
\* financial year 2024 with those hours; it adds no shift and no hours to the
\* summaries of July 2025 and financial year 2025, and is not listed in
\* financial year 2025.
C30_WindowByStartDate ==
    /\ (Did({"get_monthly_summary", "get_financial_year_summary"})
          /\ lastOp.status = "ok" /\ WindowOfJune30(lastOp))
       => \A i \in DOMAIN lastOp.result :
            LET o == lastOp.result[i].organization_id
            IN  /\ lastOp.result[i].shift_count =
                     Cardinality(AcrossJune30(o)) + Cardinality(OthersIn(o, lastOp))
                /\ lastOp.result[i].total_hours =
                     TotalHoursOf(AcrossJune30(o)) + TotalHoursOf(OthersIn(o, lastOp))
    /\ (Did({"get_monthly_summary", "get_financial_year_summary"})
          /\ lastOp.status = "ok" /\ WindowOfJuly1(lastOp))
       => \A i \in DOMAIN lastOp.result :
            LET o == lastOp.result[i].organization_id
            IN  /\ lastOp.result[i].shift_count = Cardinality(OthersIn(o, lastOp))
                /\ lastOp.result[i].total_hours = TotalHoursOf(OthersIn(o, lastOp))
    /\ (Did({"get_shifts_by_financial_year"}) /\ lastOp.status = "ok")
       => \A s \in shifts :
            (s.user_id = lastOp.target /\ s \in AcrossJune30(s.organization_id))
            => /\ WindowOfJune30(lastOp)
                  => \E i \in DOMAIN lastOp.result :
                       /\ lastOp.result[i].id = s.id
                       /\ lastOp.result[i].hours_worked
                            = 24 + (s.end_time - s.start_time) \div 3600
               /\ WindowOfJuly1(lastOp)
                  => \A i \in DOMAIN lastOp.result : lastOp.result[i].id # s.id

\* C30 witness: the summary of July 2025 of an owner whose organization has a
\* shift from June 30 06:00 to July 1 22:00 and a shift on July 1: the row
\* counts 1 shift and 16 hours
C30_Witness ==
    /\ Did({"get_monthly_summary"})
    /\ lastOp.status = "ok"
    /\ lastOp.row.month = 7
    /\ \E i \in DOMAIN lastOp.result :
         /\ lastOp.result[i].shift_count = 1
         /\ lastOp.result[i].total_hours = 16
         /\ \E s \in AcrossJune30(lastOp.result[i].organization_id) :
              s.start_time = TimeOfDay(6) /\ s.end_time = TimeOfDay(22)

====
